---------------------------- MODULE Spec2Model ----------------------------
(***************************************************************************)
(* Stochastic chemical kinetics: the state-space indexer of the CME        *)
(* engine (cme::get_index / cme::get_pop) and the Gillespie engine         *)
(* (gillespie::step / gillespie::simulate) bound to the single-substrate   *)
(* enzyme kinetics model (ssek_gillespie).                                 *)
(*                                                                         *)
(* Reals (the template type T) are modelled exactly, as reduced fractions  *)
(* <<numerator, denominator>> with a positive denominator.  The uniform    *)
(* variate r1 in (0,1) enters through w = -log(r1), any positive number;   *)
(* the uniform variate r2 in [0,1) is a fraction too.                      *)
(***************************************************************************)
EXTENDS Integers, Sequences, FiniteSets

VARIABLES
    \* ---- state-space indexer (cme) ----
    n_max,      \* lattice bound vector, a function 0..N-1 -> positive integers
    idx_y,      \* population vector given to / returned by the indexer
    idx_i,      \* flat index returned by / given to the indexer
    idx_back,   \* result of applying the inverse conversion to the last result
    idx_op,     \* "none" | "index" | "pop" | "index_pop" | "pop_index"
    \* ---- Gillespie engine (ssek_gillespie) ----
    kappa,      \* rate constants (f, b, cat)
    ET,         \* total enzyme constant
    ST,         \* total substrate/product constant
    x,          \* population numbers, a function 0..N_s-1 -> Int
    t,          \* time
    states,     \* the vector of gillespie_state {x, t} given to the last simulate
    pc,         \* "idle" | "sim": inside a simulate loop or not
    sim,        \* locals of the running (or last) simulate call, with its history
    last,       \* the user's last call of step: arguments, pre-state, result
    nsteps,     \* number of step calls since the last reset of x and t
    ssa_model,  \* "ssek" | "tqssa" | "sqssa": the Gillespie class constructed
    acall,      \* the user's last direct call of a(i): arguments and result
    \* ---- CME engine (cme and the models derived from it) ----
    model,      \* "none" | "ekinetics" | "tqssa" | "sqssa": the class constructed
    kcat,       \* catalysis rate constant (tqssa_cme, sqssa_cme)
    kM,         \* Michaelis-Menten constant (tqssa_cme, sqssa_cme)
    engine,     \* "none" | "constructed" | "thrown" | "terminated": the outcome
                \* of construction
    p,          \* probabilities, a function 0..n_elems-1 -> T
    dp,         \* derivative of the probabilities, written by the lambda f
    cme_x,      \* cme::x, the scratch population vector of the lattice sweeps
    cme_t,      \* cme::t, the time of the CME engine
    m,          \* moment cache, m[species][order] for orders 0..moments_max_order
    calculated_stats,   \* whether m has been computed from the current p
    cme_pc,     \* "idle" | "sim": inside a cme::simulate loop or not
    csim,       \* locals of the running (or last) cme::simulate call
    cme_states, \* the vector of cme_state {p, t} given to the last simulate
    cq,         \* the user's last query of the CME engine, with its result
    cme_nsteps  \* number of cme::step calls since construction

idxvars == <<n_max, idx_y, idx_i, idx_back, idx_op>>
ssavars == <<kappa, ET, ST, x, t, states, pc, sim, last, nsteps, ssa_model, acall>>
cmevars == <<model, kcat, kM, engine, p, dp, cme_x, cme_t, m, calculated_stats,
             cme_pc, csim, cme_states, cq, cme_nsteps>>
vars == <<n_max, idx_y, idx_i, idx_back, idx_op,
          kappa, ET, ST, x, t, states, pc, sim, last, nsteps, ssa_model, acall,
          model, kcat, kM, engine, p, dp, cme_x, cme_t, m, calculated_stats,
          cme_pc, csim, cme_states, cq, cme_nsteps>>

-----------------------------------------------------------------------------
(* Bounds of the model *)

MaxDims == 3        \* number of species N_s of a lattice: 1..MaxDims
MaxNmax == 3        \* lattice bounds n_max[i]: 1..MaxNmax
MaxCalls == 3       \* step calls between two resets
MaxN == 2           \* simulate's n: 0..MaxN
MaxCmeSteps == 2    \* cme::step calls on one engine
MaxClockSteps == 5  \* cme::step calls on one engine driven by the long simulate calls

-----------------------------------------------------------------------------
(* Exact arithmetic of the floating-point type T *)

Abs(a) == IF a < 0 THEN -a ELSE a

RECURSIVE GCD(_, _)
GCD(a, b) == IF b = 0 THEN a ELSE GCD(b, a % b)

\* the fraction n/d (d # 0), reduced, with a positive denominator
Rat(n, d) ==
    LET g == GCD(Abs(n), Abs(d))
        s == IF d < 0 THEN -1 ELSE 1
    IN  <<(s * n) \div g, (s * d) \div g>>

\* sums are taken over the least common denominator
RAdd(u, v) ==
    LET g == GCD(u[2], v[2])
    IN  Rat(u[1] * (v[2] \div g) + v[1] * (u[2] \div g), (u[2] \div g) * v[2])
RLt(u, v) == u[1] * v[2] < v[1] * u[2]
RLe(u, v) == u[1] * v[2] <= v[1] * u[2]
RGt(u, v) == RLt(v, u)
RZero == <<0, 1>>
ROne == <<1, 1>>
RSub(u, v) == RAdd(u, <<-v[1], v[2]>>)
RMul(u, v) == Rat(u[1] * v[1], u[2] * v[2])
RDiv(u, v) == Rat(u[1] * v[2], u[2] * v[1])
RInt(k) == <<k, 1>>

\* the largest integer r in lo..hi whose square is at most k, by bisection
RECURSIVE isqrt_search(_, _, _)
isqrt_search(k, lo, hi) ==
    IF lo >= hi THEN lo
    ELSE LET mid == (lo + hi + 1) \div 2
         IN  IF mid * mid <= k THEN isqrt_search(k, mid, hi)
             ELSE isqrt_search(k, lo, mid - 1)

\* the largest integer whose square is at most k (0 <= k < 2^30)
isqrt(k) == isqrt_search(k, 0, IF k < 32767 THEN k ELSE 32767)

\* std::sqrt of v >= 0: the exact root where it is a fraction, and otherwise
\* the real number named by its square, <<"surd", numerator, denominator>>
sqrt(v) ==
    LET rn == isqrt(v[1])
        rd == isqrt(v[2])
    IN  IF rn * rn = v[1] /\ rd * rd = v[2] THEN <<rn, rd>>
        ELSE <<"surd", v[1], v[2]>>

\* std::numeric_limits<T>::digits, the significant bits of the floating-point
\* type T (53 for double, 24 for float), scaled down so that the clock values
\* at which t + dt rounds back to t are reached within a few steps
T_digits == 2

RECURSIVE Pow2(_)
Pow2(k) == IF k <= 0 THEN 1 ELSE 2 * Pow2(k - 1)

\* the value of type T nearest to the real number v, ties to the even
\* significand (the rounding of every T operation); the exponent range of T
\* is not reached by the values of the model
round_to_T(v) ==
    IF v[1] = 0 THEN RZero
    ELSE CHOOSE r \in
        {CHOOSE u \in
            {Rat((IF v[1] < 0 THEN -1 ELSE 1) * Pow2(e)
                    * (IF 2 * rem > den \/ (2 * rem = den /\ q % 2 = 1)
                       THEN q + 1 ELSE q),
                 Pow2(-e)) :
                rem \in {(Abs(v[1]) * Pow2(-e)) % den}} : TRUE :
            <<e, den, q>> \in
                {<<e, v[2] * Pow2(e), (Abs(v[1]) * Pow2(-e)) \div (v[2] * Pow2(e))>> :
                    e \in {k \in (-6)..6 :
                             /\ Pow2(T_digits - 1) * v[2] * Pow2(k) <= Abs(v[1]) * Pow2(-k)
                             /\ Abs(v[1]) * Pow2(-k) < Pow2(T_digits) * v[2] * Pow2(k)}}} : TRUE

-----------------------------------------------------------------------------
(* State-space indexer: cme::n_elems, cme::get_index, cme::get_pop *)

\* number of species of the lattice nm (the template parameter N_s)
Dim(nm) == Cardinality(DOMAIN nm)

\* for (i = 0; i < N_s; ++i) n *= n_max[i];
RECURSIVE n_elems_loop(_, _, _)
n_elems_loop(nm, i, n) ==
    IF i >= Dim(nm) THEN n ELSE n_elems_loop(nm, i + 1, n * nm[i])

n_elems(nm) == n_elems_loop(nm, 0, 1)

\* for (i = 0; i < N_s; ++i) index = index*n_max[i] + y[i];
RECURSIVE get_index_loop(_, _, _, _)
get_index_loop(nm, y, i, index) ==
    IF i >= Dim(nm) THEN index
    ELSE get_index_loop(nm, y, i + 1, index * nm[i] + y[i])

\* a plausible slip: the species are folded in from the last one to the first
RECURSIVE get_index_rev_loop(_, _, _, _)
get_index_rev_loop(nm, y, i, index) ==
    IF i < 0 THEN index
    ELSE get_index_rev_loop(nm, y, i - 1, index * nm[i] + y[i])

get_index_reversed(nm, y) == get_index_rev_loop(nm, y, Dim(nm) - 1, 0)

get_index(nm, y) == get_index_loop(nm, y, 0, 0)

\* for (i = N_s; i --> 0; ) { y[i] = index % n_max[i]; index /= n_max[i]; }
RECURSIVE get_pop_loop(_, _, _, _)
get_pop_loop(nm, y, i, index) ==
    IF i < 0 THEN y
    ELSE get_pop_loop(nm, [y EXCEPT ![i] = index % nm[i]], i - 1, index \div nm[i])

\* a plausible slip: the quotient is taken by the radix of the next species
RECURSIVE get_pop_shift_loop(_, _, _, _)
get_pop_shift_loop(nm, y, i, index) ==
    IF i < 0 THEN y
    ELSE get_pop_shift_loop(nm, [y EXCEPT ![i] = index % nm[i]], i - 1,
                            index \div nm[IF i > 0 THEN i - 1 ELSE i])

get_pop_shifted(nm, index) ==
    get_pop_shift_loop(nm, [i \in DOMAIN nm |-> 0], Dim(nm) - 1, index)

get_pop(nm, index) == get_pop_loop(nm, [i \in DOMAIN nm |-> 0], Dim(nm) - 1, index)

\* the lattices a cme can be constructed with: every n_max[i] > 0
Lattices == UNION {[0..(n - 1) -> 1..MaxNmax] : n \in 1..MaxDims}

\* the population vectors inside the lattice nm: 0 <= y[i] < n_max[i]
InLattice(nm) == {y \in [DOMAIN nm -> 0..(MaxNmax - 1)] : \A i \in DOMAIN nm : y[i] < nm[i]}

\* a call get_index(y) with y inside the lattice
CallGetIndex ==
    \E y \in InLattice(n_max) :
        /\ idx_y' = y
        /\ idx_i' = get_index(n_max, y)
        /\ idx_back' = 0
        /\ idx_op' = "index"
        /\ UNCHANGED <<n_max, ssavars, cmevars>>

\* a call get_pop(i) with i in [0, n_elems())
CallGetPop ==
    \E i \in 0..(n_elems(n_max) - 1) :
        /\ idx_i' = i
        /\ idx_y' = get_pop(n_max, i)
        /\ idx_back' = 0
        /\ idx_op' = "pop"
        /\ UNCHANGED <<n_max, ssavars, cmevars>>

\* get_pop applied to the index that get_index just returned
CallGetPopOfIndex ==
    /\ idx_op = "index"
    /\ idx_back' = get_pop(n_max, idx_i)
    /\ idx_op' = "index_pop"
    /\ UNCHANGED <<n_max, idx_y, idx_i, ssavars, cmevars>>

\* get_index applied to the population vector that get_pop just returned
CallGetIndexOfPop ==
    /\ idx_op = "pop"
    /\ idx_back' = get_index(n_max, idx_y)
    /\ idx_op' = "pop_index"
    /\ UNCHANGED <<n_max, idx_y, idx_i, ssavars, cmevars>>

-----------------------------------------------------------------------------
(* Single-substrate enzyme kinetics: ssek_gillespie *)

\* enum ssek_substance {sss_C, sss_P, sss_N}
sss_C == 0
sss_P == 1
sss_N == 2
\* enum ssek_reaction_channel {ssrc_f, ssrc_b, ssrc_cat, ssrc_N}
ssrc_f == 0
ssrc_b == 1
ssrc_cat == 2
ssrc_N == 3

N_s == sss_N
N_r == ssrc_N

\* stoichiometric vectors, set by the constructor
\*               C, P
nu == [r \in 0..(N_r - 1) |->
        CASE r = ssrc_f   -> [s \in 0..(N_s - 1) |-> IF s = sss_C THEN 1 ELSE 0]
          [] r = ssrc_b   -> [s \in 0..(N_s - 1) |-> IF s = sss_C THEN -1 ELSE 0]
          [] r = ssrc_cat -> [s \in 0..(N_s - 1) |-> IF s = sss_C THEN -1 ELSE 1]]

\* the condition under which a(i) throws std::domain_error
domain_error(xx) == xx[sss_C] > ET \/ xx[sss_C] + xx[sss_P] > ST

\* propensity function of channel i at the population numbers xx
\* (only evaluated where domain_error(xx) is false)
a(xx, i) ==
    CASE i = ssrc_f   -> kappa[ssrc_f] * ((ET - xx[sss_C]) * (ST - xx[sss_C] - xx[sss_P]))
      [] i = ssrc_b   -> kappa[ssrc_b] * xx[sss_C]
      [] i = ssrc_cat -> kappa[ssrc_cat] * xx[sss_C]

-----------------------------------------------------------------------------
(* Gillespie general algorithm: gillespie::total_propensity, step, simulate *)

\* for (i = 0; i < N_r; ++i) a_tot += a(i);
RECURSIVE total_propensity_loop(_, _, _)
total_propensity_loop(xx, i, a_tot) ==
    IF i >= N_r THEN a_tot ELSE total_propensity_loop(xx, i + 1, a_tot + a(xx, i))

total_propensity(xx) == total_propensity_loop(xx, 0, 0)

\* a plausible slip: log(r1)/a_tot, the minus sign forgotten
waiting_time_unsigned(w, a_tot) == Rat(-w, a_tot)

\* T tau = -log(r1)/a_tot, with w = -log(r1)
waiting_time(w, a_tot) == Rat(w, a_tot)

\* a plausible slip: t + tau >= t_final, which rejects a reaction that lands
\* exactly on the deadline
after_deadline_inclusive(tt, tau, t_final) ==
    RLe(t_final, RAdd(tt, tau)) /\ RGt(t_final, RZero)

\* a plausible slip: the deadline is compared whatever its sign
after_deadline_any_sign(tt, tau, t_final) == RGt(RAdd(tt, tau), t_final)

\* t + tau > t_final && t_final > 0
after_deadline(tt, tau, t_final) ==
    RGt(RAdd(tt, tau), t_final) /\ RGt(t_final, RZero)

\* a plausible slip: a_accum >= r2*a_tot, which selects a channel of zero
\* propensity when r2 = 0
RECURSIVE select_channel_inclusive(_, _, _, _, _)
select_channel_inclusive(xx, j, a_accum, r2, a_tot) ==
    IF j >= N_r - 1 THEN j
    ELSE IF (a_accum + a(xx, j)) * r2[2] >= r2[1] * a_tot THEN j
         ELSE select_channel_inclusive(xx, j + 1, a_accum + a(xx, j), r2, a_tot)

\* the earlier revision of the loop: a(j), not the accumulated sum, is compared
RECURSIVE select_channel_no_accum(_, _, _, _, _)
select_channel_no_accum(xx, j, a_accum, r2, a_tot) ==
    IF j >= N_r - 1 THEN j
    ELSE IF a(xx, j) * r2[2] > r2[1] * a_tot THEN j
         ELSE select_channel_no_accum(xx, j + 1, a_accum, r2, a_tot)

\* for (j = 0; j < N_r-1; ++j) { a_accum += a(j); if (a_accum > r2*a_tot) break; }
\* the value of j after the loop
RECURSIVE select_channel(_, _, _, _, _)
select_channel(xx, j, a_accum, r2, a_tot) ==
    IF j >= N_r - 1 THEN j
    ELSE IF (a_accum + a(xx, j)) * r2[2] > r2[1] * a_tot THEN j
         ELSE select_channel(xx, j + 1, a_accum + a(xx, j), r2, a_tot)

\* x += nu[j]
apply_reaction(xx, j) == [s \in 0..(N_s - 1) |-> xx[s] + nu[j][s]]

\* the record of a call of step that has not happened
NoStep ==
    [ret |-> "none", x0 |-> [s \in 0..(N_s - 1) |-> 0], t0 |-> RZero,
     t_final |-> RZero, a_tot |-> 0, tau |-> RZero, r2 |-> RZero, j |-> 0,
     x1 |-> [s \in 0..(N_s - 1) |-> 0], t1 |-> RZero]

\* the record of a direct call of a(i) that has not happened
NoCall == [ret |-> "none", x |-> <<>>, i |-> 0, val |-> 0]

\* a plausible slip: a rejected reaction still moves the clock to the deadline
step_clock_to_deadline(xx, tt, t_final, w, r2) ==
    IF domain_error(xx)
    THEN [NoStep EXCEPT !.ret = "domain_error", !.x0 = xx, !.t0 = tt,
                        !.t_final = t_final, !.x1 = xx, !.t1 = tt]
    ELSE
    LET a_tot == total_propensity(xx)
        call == [NoStep EXCEPT !.x0 = xx, !.t0 = tt, !.t_final = t_final,
                               !.a_tot = a_tot, !.x1 = xx, !.t1 = tt]
    IN  IF a_tot = 0 THEN [call EXCEPT !.ret = "false"]
        ELSE
        LET tau == waiting_time(w, a_tot)
        IN  IF after_deadline(tt, tau, t_final)
            THEN [call EXCEPT !.ret = "false", !.tau = tau, !.t1 = t_final]
            ELSE
            LET j == select_channel(xx, 0, 0, r2, a_tot)
            IN  [call EXCEPT !.ret = "true", !.tau = tau, !.r2 = r2, !.j = j,
                             !.t1 = RAdd(tt, tau), !.x1 = apply_reaction(xx, j)]

\* a plausible slip: with no reaction possible, the clock idles to the deadline
step_idle_to_deadline(xx, tt, t_final, w, r2) ==
    IF domain_error(xx)
    THEN [NoStep EXCEPT !.ret = "domain_error", !.x0 = xx, !.t0 = tt,
                        !.t_final = t_final, !.x1 = xx, !.t1 = tt]
    ELSE
    LET a_tot == total_propensity(xx)
        call == [NoStep EXCEPT !.x0 = xx, !.t0 = tt, !.t_final = t_final,
                               !.a_tot = a_tot, !.x1 = xx, !.t1 = tt]
    IN  IF a_tot = 0
        THEN [call EXCEPT !.ret = "false",
                          !.t1 = IF RGt(t_final, tt) THEN t_final ELSE tt]
        ELSE
        LET tau == waiting_time(w, a_tot)
        IN  IF after_deadline(tt, tau, t_final)
            THEN [call EXCEPT !.ret = "false", !.tau = tau]
            ELSE
            LET j == select_channel(xx, 0, 0, r2, a_tot)
            IN  [call EXCEPT !.ret = "true", !.tau = tau, !.r2 = r2, !.j = j,
                             !.t1 = RAdd(tt, tau), !.x1 = apply_reaction(xx, j)]

\* bool step(T t_final): the call at population numbers xx and time tt, with
\* the variates w = -log(r1) and r2.  ret is "true", "false", or
\* "domain_error" when a(i) throws inside total_propensity; x1, t1 are the
\* population numbers and the time after the call.
step(xx, tt, t_final, w, r2) ==
    IF domain_error(xx)
    THEN [NoStep EXCEPT !.ret = "domain_error", !.x0 = xx, !.t0 = tt,
                        !.t_final = t_final, !.x1 = xx, !.t1 = tt]
    ELSE
    LET a_tot == total_propensity(xx)
        call == [NoStep EXCEPT !.x0 = xx, !.t0 = tt, !.t_final = t_final,
                               !.a_tot = a_tot, !.x1 = xx, !.t1 = tt]
    IN  IF a_tot = 0 THEN [call EXCEPT !.ret = "false"]
        ELSE
        LET tau == waiting_time(w, a_tot)
        IN  IF after_deadline(tt, tau, t_final)
            THEN [call EXCEPT !.ret = "false", !.tau = tau]
            ELSE
            LET j == select_channel(xx, 0, 0, r2, a_tot)
            IN  [call EXCEPT !.ret = "true", !.tau = tau, !.r2 = r2, !.j = j,
                             !.t1 = RAdd(tt, tau), !.x1 = apply_reaction(xx, j)]

\* i < n && (t <= t_final || t_final <= 0)
loop_cond(i, n, tt, t_final) ==
    i < n /\ (RLe(tt, t_final) \/ RLe(t_final, RZero))

\* the record of a simulate call that has not happened
NoSim ==
    [status |-> "none", n |-> 0, t_final |-> RZero, rec |-> FALSE,
     b_initial |-> FALSE, i |-> 0, calls |-> 0, accepted |-> 0,
     false_seen |-> FALSE, len0 |-> 0]

\* entry of simulate(n, t_final) (rec = FALSE) and of
\* simulate(states, n, t_final, b_initial) (rec = TRUE), up to the first test
\* of the loop condition; list is the caller's vector
simulate_entry(xx, tt, list, n, t_final, rec, b_initial) ==
    LET running == loop_cond(0, n, tt, t_final)
    IN  [sim |-> [NoSim EXCEPT !.status = IF running THEN "running" ELSE "returned",
                               !.n = n, !.t_final = t_final, !.rec = rec,
                               !.b_initial = b_initial, !.len0 = Len(list)],
         states |-> IF rec /\ b_initial
                    THEN Append(list, [x |-> xx, t |-> tt]) ELSE list,
         pc |-> IF running THEN "sim" ELSE "idle"]

\* a plausible slip: the break is missing, the loop goes on after a false step
simulate_iteration_no_break(sm, xx, tt, list, w, r2) ==
    LET r == step(xx, tt, sm.t_final, w, r2)
        called == [sm EXCEPT !.calls = sm.calls + 1]
        running == loop_cond(sm.i + 1, sm.n, r.t1, sm.t_final)
    IN  CASE r.ret = "domain_error" ->
               [sim |-> [called EXCEPT !.status = "thrown"],
                states |-> list, pc |-> "idle", x |-> r.x1, t |-> r.t1]
          [] r.ret = "false" ->
               [sim |-> [called EXCEPT !.i = sm.i + 1, !.false_seen = TRUE,
                                       !.status = IF running THEN "running"
                                                  ELSE "returned"],
                states |-> list, pc |-> IF running THEN "sim" ELSE "idle",
                x |-> r.x1, t |-> r.t1]
          [] r.ret = "true" ->
               [sim |-> [called EXCEPT !.i = sm.i + 1,
                                       !.accepted = sm.accepted + 1,
                                       !.status = IF running THEN "running"
                                                  ELSE "returned"],
                states |-> IF sm.rec
                           THEN Append(list, [x |-> r.x1, t |-> r.t1])
                           ELSE list,
                pc |-> IF running THEN "sim" ELSE "idle",
                x |-> r.x1, t |-> r.t1]

\* a plausible slip: simulate catches the exception of step and just stops
simulate_iteration_catch(sm, xx, tt, list, w, r2) ==
    LET r == step(xx, tt, sm.t_final, w, r2)
        called == [sm EXCEPT !.calls = sm.calls + 1]
    IN  CASE r.ret \in {"domain_error", "false"} ->
               [sim |-> [called EXCEPT !.status = "returned", !.false_seen = TRUE],
                states |-> list, pc |-> "idle", x |-> r.x1, t |-> r.t1]
          [] r.ret = "true" ->
               LET running == loop_cond(sm.i + 1, sm.n, r.t1, sm.t_final)
               IN  [sim |-> [called EXCEPT !.i = sm.i + 1,
                                           !.accepted = sm.accepted + 1,
                                           !.status = IF running THEN "running"
                                                      ELSE "returned"],
                    states |-> IF sm.rec
                               THEN Append(list, [x |-> r.x1, t |-> r.t1])
                               ELSE list,
                    pc |-> IF running THEN "sim" ELSE "idle",
                    x |-> r.x1, t |-> r.t1]

\* a plausible slip: the state is pushed before the result of step is tested
simulate_iteration_push_first(sm, xx, tt, list, w, r2) ==
    LET r == step(xx, tt, sm.t_final, w, r2)
        called == [sm EXCEPT !.calls = sm.calls + 1]
        pushed == IF sm.rec THEN Append(list, [x |-> r.x1, t |-> r.t1]) ELSE list
    IN  CASE r.ret = "domain_error" ->
               [sim |-> [called EXCEPT !.status = "thrown"],
                states |-> list, pc |-> "idle", x |-> r.x1, t |-> r.t1]
          [] r.ret = "false" ->
               [sim |-> [called EXCEPT !.status = "returned", !.false_seen = TRUE],
                states |-> pushed, pc |-> "idle", x |-> r.x1, t |-> r.t1]
          [] r.ret = "true" ->
               LET running == loop_cond(sm.i + 1, sm.n, r.t1, sm.t_final)
               IN  [sim |-> [called EXCEPT !.i = sm.i + 1,
                                           !.accepted = sm.accepted + 1,
                                           !.status = IF running THEN "running"
                                                      ELSE "returned"],
                    states |-> pushed,
                    pc |-> IF running THEN "sim" ELSE "idle",
                    x |-> r.x1, t |-> r.t1]

\* one pass through the loop body of simulate, then ++i and the loop condition:
\* if (!step(t_final)) break; states.push_back({x, t});
simulate_iteration(sm, xx, tt, list, w, r2) ==
    LET r == step(xx, tt, sm.t_final, w, r2)
        called == [sm EXCEPT !.calls = sm.calls + 1]
    IN  CASE r.ret = "domain_error" ->
               [sim |-> [called EXCEPT !.status = "thrown"],
                states |-> list, pc |-> "idle", x |-> r.x1, t |-> r.t1]
          [] r.ret = "false" ->
               [sim |-> [called EXCEPT !.status = "returned", !.false_seen = TRUE],
                states |-> list, pc |-> "idle", x |-> r.x1, t |-> r.t1]
          [] r.ret = "true" ->
               LET running == loop_cond(sm.i + 1, sm.n, r.t1, sm.t_final)
               IN  [sim |-> [called EXCEPT !.i = sm.i + 1,
                                           !.accepted = sm.accepted + 1,
                                           !.status = IF running THEN "running"
                                                      ELSE "returned"],
                    states |-> IF sm.rec
                               THEN Append(list, [x |-> r.x1, t |-> r.t1])
                               ELSE list,
                    pc |-> IF running THEN "sim" ELSE "idle",
                    x |-> r.x1, t |-> r.t1]

-----------------------------------------------------------------------------
(* The engine in use *)

\* the rate constants kappa[i] of the model
RateConstants == {0, 1}
\* the constants of motion ET, ST; a negative one makes a(i) throw
Totals == {-1, 0, 1, 2}
\* the values of t_final: negative, the default 0, positive
Deadlines == {Rat(-1, 1), RZero, Rat(1, 1)}
\* the values of w = -log(r1), r1 in (0,1)
Variates1 == {1, 2}
\* the vectors the user passes to simulate(states, ...): an empty one, and
\* one holding the snapshot of a freshly constructed engine
Vectors == {<<>>, <<[x |-> [s \in 0..(N_s - 1) |-> 0], t |-> RZero]>>}
\* the values of r2, in [0,1)
Variates2 == {RZero, Rat(1, 3), Rat(2, 3)}

\* a call of step(t_final) by the user
Step ==
    /\ pc = "idle"
    /\ nsteps < MaxCalls
    /\ \E t_final \in Deadlines, w \in Variates1, r2 \in Variates2 :
        LET r == step(x, t, t_final, w, r2)
        IN  /\ x' = r.x1
            /\ t' = r.t1
            /\ last' = r
    /\ nsteps' = nsteps + 1
    /\ sim' = NoSim
    /\ states' = <<>>
    /\ UNCHANGED <<kappa, ET, ST, pc, ssa_model, acall, idxvars, cmevars>>

\* sys.x = 0; sys.t = 0; the user's reset between two realizations
Reset ==
    /\ pc = "idle"
    /\ nsteps > 0
    /\ x' = [s \in 0..(N_s - 1) |-> 0]
    /\ t' = RZero
    /\ nsteps' = 0
    /\ last' = NoStep
    /\ sim' = NoSim
    /\ states' = <<>>
    /\ UNCHANGED <<kappa, ET, ST, pc, ssa_model, acall, idxvars, cmevars>>

\* the population numbers the user writes into the public member x
Populations == [0..(N_s - 1) -> (-1)..2]

\* sys.x = v; the user's assignment to the public member x
SetX ==
    /\ pc = "idle"
    /\ \E v \in Populations : x' = v
    /\ acall' = NoCall
    /\ UNCHANGED <<kappa, ET, ST, t, states, pc, sim, last, nsteps, ssa_model,
                   idxvars, cmevars>>

\* sys.a(i); a direct call of the public propensity function
CallPropensity ==
    /\ pc = "idle"
    /\ \E i \in 0..(N_r - 1) :
        acall' = IF domain_error(x)
                 THEN [NoCall EXCEPT !.ret = "domain_error", !.x = x, !.i = i]
                 ELSE [NoCall EXCEPT !.ret = "value", !.x = x, !.i = i,
                                     !.val = a(x, i)]
    /\ UNCHANGED <<kappa, ET, ST, x, t, states, pc, sim, last, nsteps, ssa_model,
                   idxvars, cmevars>>

\* a call of simulate(n, t_final)
Simulate ==
    /\ pc = "idle"
    /\ \E n \in 0..MaxN, t_final \in Deadlines :
        /\ nsteps + n <= MaxCalls
        /\ LET e == simulate_entry(x, t, <<>>, n, t_final, FALSE, FALSE)
           IN  /\ sim' = e.sim
               /\ pc' = e.pc
               /\ states' = e.states
    /\ last' = NoStep
    /\ UNCHANGED <<kappa, ET, ST, x, t, nsteps, ssa_model, acall, idxvars,
                   cmevars>>

\* a call of simulate(states, n, t_final, b_initial); the user passes an
\* empty vector or one that already holds a snapshot
SimulateStates ==
    /\ pc = "idle"
    /\ \E n \in 0..MaxN, t_final \in Deadlines, b_initial \in BOOLEAN,
          list \in Vectors :
        /\ nsteps + n <= MaxCalls
        /\ LET e == simulate_entry(x, t, list, n, t_final, TRUE, b_initial)
           IN  /\ sim' = e.sim
               /\ pc' = e.pc
               /\ states' = e.states
    /\ last' = NoStep
    /\ UNCHANGED <<kappa, ET, ST, x, t, nsteps, ssa_model, acall, idxvars,
                   cmevars>>

\* one iteration of the loop of either simulate
SimulateLoop ==
    /\ pc = "sim"
    /\ \E w \in Variates1, r2 \in Variates2 :
        LET it == simulate_iteration(sim, x, t, states, w, r2)
        IN  /\ sim' = it.sim
            /\ pc' = it.pc
            /\ states' = it.states
            /\ x' = it.x
            /\ t' = it.t
    /\ nsteps' = nsteps + 1
    /\ UNCHANGED <<kappa, ET, ST, last, ssa_model, acall, idxvars, cmevars>>

-----------------------------------------------------------------------------
(* CME engine: cme and the models ekinetics_cme, tqssa_cme, sqssa_cme *)

\* no query has been made since the last change of the engine
NoQuery == [op |-> "none", integ |-> "none", dt |-> RZero,
            s_i |-> 0, n |-> 0, y |-> <<>>, r_i |-> 0,
            ret |-> "none", val |-> RZero]

\* no cme::simulate has been called
NoCmeSim == [status |-> "none", integ |-> "none", dt |-> RZero, t_final |-> RZero,
             rec |-> FALSE, b_initial |-> FALSE, i |-> 0, t0 |-> RZero,
             n0 |-> 0, len0 |-> 0]

\* enum enzyme_kinetics_substance, enzyme_kinetics_reaction_channel,
\* tqssa_substance, sqssa_substance
eks_C == 0
eks_P == 1
eks_N == 2
ekrc_f == 0
ekrc_b == 1
ekrc_cat == 2
ekrc_N == 3
tqs_P == 0
tqs_N == 1
sqs_P == 0
sqs_N == 1

\* static constexpr std::size_t moments_max_order = 3;
moments_max_order == 3

\* template arguments N_s and N_r of the base class of each model
cme_N_s(mdl) ==
    CASE mdl = "ekinetics" -> eks_N
      [] mdl = "tqssa" -> tqs_N
      [] mdl = "sqssa" -> sqs_N

cme_N_r(mdl) ==
    CASE mdl = "ekinetics" -> ekrc_N
      [] mdl = "tqssa" -> 1
      [] mdl = "sqssa" -> 1

\* stoichiometric vectors set by the constructor of each model
cme_nu(mdl) ==
    CASE mdl = "ekinetics" ->
           [r \in 0..(ekrc_N - 1) |->
              CASE r = ekrc_f -> [s \in 0..(eks_N - 1) |-> IF s = eks_C THEN 1 ELSE 0]
                [] r = ekrc_b -> [s \in 0..(eks_N - 1) |-> IF s = eks_C THEN -1 ELSE 0]
                [] r = ekrc_cat -> [s \in 0..(eks_N - 1) |-> IF s = eks_C THEN -1 ELSE 1]]
      [] mdl = "tqssa" -> [r \in 0..0 |-> [s \in 0..(tqs_N - 1) |-> 1]]
      [] mdl = "sqssa" -> [r \in 0..0 |-> [s \in 0..(sqs_N - 1) |-> 1]]

\* the lattice bounds each model constructor hands to the base: {ET+1, ST+1}
\* for ekinetics_cme, {ST+1} for tqssa_cme and sqssa_cme
model_n_max(mdl, et, st) ==
    IF mdl = "ekinetics"
    THEN [i \in 0..(eks_N - 1) |-> IF i = eks_C THEN et + 1 ELSE st + 1]
    ELSE [i \in 0..0 |-> st + 1]

\* ekinetics_cme::a without the early return for y[C] + y[P] > ST
ekinetics_cme_a_unguarded(y, i) ==
    CASE i = ekrc_f ->
           RInt(kappa[ekrc_f] * ((ET - y[eks_C]) * (ST - y[eks_C] - y[eks_P])))
      [] i = ekrc_b -> RInt(kappa[ekrc_b] * y[eks_C])
      [] i = ekrc_cat -> RInt(kappa[ekrc_cat] * y[eks_C])

\* ekinetics_cme::a: the value returned, where one is returned
ekinetics_cme_a(y, i) ==
    IF y[eks_C] + y[eks_P] > ST THEN RZero
    ELSE CASE i = ekrc_f ->
                RInt(kappa[ekrc_f] * ((ET - y[eks_C]) * (ST - y[eks_C] - y[eks_P])))
           [] i = ekrc_b -> RInt(kappa[ekrc_b] * y[eks_C])
           [] i = ekrc_cat -> RInt(kappa[ekrc_cat] * y[eks_C])

\* ekinetics_cme::a: whether std::out_of_range is thrown (the default label
\* of the switch, which comes after the early return)
ekinetics_cme_a_throws(y, i) ==
    ~(y[eks_C] + y[eks_P] > ST) /\ i >= ekrc_N

\* tqssa_cme::a
tqssa_cme_a(y, i) ==
    LET S_hat == ST - y[tqs_P]
        c == 2 * ET * S_hat
        b == RAdd(RInt(ET + S_hat), kM)
        Delta == RSub(RMul(b, b), RInt(2 * c))
    IN  RDiv(RMul(kcat, RInt(c)), RAdd(b, sqrt(Delta)))

tqssa_cme_a_throws(y, i) == i # 0

\* sqssa_cme::a
sqssa_cme_a(y, i) ==
    LET S == ST - y[sqs_P]
    IN  RDiv(RMul(kcat, RInt(ET * S)), RAdd(RInt(S), kM))

sqssa_cme_a_throws(y, i) == i # 0

\* the virtual call a(y, r_i) of the engine constructed
cme_a(y, r_i) ==
    CASE model = "ekinetics" -> ekinetics_cme_a(y, r_i)
      [] model = "tqssa" -> tqssa_cme_a(y, r_i)
      [] model = "sqssa" -> sqssa_cme_a(y, r_i)

cme_a_throws(y, r_i) ==
    CASE model = "ekinetics" -> ekinetics_cme_a_throws(y, r_i)
      [] model = "tqssa" -> tqssa_cme_a_throws(y, r_i)
      [] model = "sqssa" -> sqssa_cme_a_throws(y, r_i)

\* a plausible slip: only negative population numbers are rejected
out_of_bounds_lower_only(nm, y) == \E i \in DOMAIN nm : y[i] < 0

\* cme::out_of_bounds
out_of_bounds(nm, y) == \E i \in DOMAIN nm : y[i] < 0 \/ y[i] >= nm[i]

\* x - nu[r_i]
vec_minus(xx, v) == [i \in DOMAIN xx |-> xx[i] - v[i]]

\* for (j = N_s; j --> 1; ) if (x[j] == n_max[j]) { x[j] = 0; ++x[j-1]; }
RECURSIVE carry_loop(_, _, _)
carry_loop(nm, xx, j) ==
    IF j < 1 THEN xx
    ELSE IF xx[j] = nm[j]
         THEN carry_loop(nm, [xx EXCEPT ![j] = 0, ![j - 1] = xx[j - 1] + 1], j - 1)
         ELSE carry_loop(nm, xx, j - 1)

\* a plausible slip: the first species, not the last, is the one incremented
next_pop_first_species(nm, xx) ==
    carry_loop(nm, [xx EXCEPT ![0] = xx[0] + 1], Dim(nm) - 1)

\* ++x[N_s-1]; followed by the carry loop: the end of every sweep iteration
next_pop(nm, xx) ==
    carry_loop(nm, [xx EXCEPT ![Dim(nm) - 1] = xx[Dim(nm) - 1] + 1], Dim(nm) - 1)

\* the scratch vector x at the start of iteration pop_i of a sweep over the
\* lattice nm: x = 0; then pop_i times ++x[N_s-1] with the carry loop
RECURSIVE sweep_x(_, _)
sweep_x(nm, pop_i) ==
    IF pop_i <= 0 THEN [i \in DOMAIN nm |-> 0]
    ELSE next_pop(nm, sweep_x(nm, pop_i - 1))

\* the accesses of the lambda f from iteration pop_i on, on the lattice nm
\* with the stoichiometric vectors nus and the scratch vector xx: for every
\* iteration and channel, the vector a(x, r_i) is called with, the source
\* x - nu[r_i], and whether the guard lets a(x - nu[r_i], r_i) be called and
\* p[get_index(x - nu[r_i])] be read.  p and dp are indexed with pop_i.
RECURSIVE f_accesses(_, _, _, _)
f_accesses(nm, nus, pop_i, xx) ==
    IF pop_i >= n_elems(nm) THEN {}
    ELSE {[pop_i |-> pop_i, r_i |-> r_i, x |-> xx, src |-> vec_minus(xx, nus[r_i]),
           read |-> ~out_of_bounds(nm, vec_minus(xx, nus[r_i]))] : r_i \in DOMAIN nus}
         \cup f_accesses(nm, nus, pop_i + 1, next_pop(nm, xx))

\* the loop over the channels in the lambda f, for one lattice state
RECURSIVE f_channels(_, _, _, _, _)
f_channels(q, pop_i, xx, r_i, acc) ==
    IF r_i >= cme_N_r(model) THEN acc
    ELSE LET src == vec_minus(xx, cme_nu(model)[r_i])
             gain == IF ~out_of_bounds(n_max, src)
                     THEN RAdd(acc, RMul(cme_a(src, r_i), q[get_index(n_max, src)]))
                     ELSE acc
             loss == RSub(gain, RMul(cme_a(xx, r_i), q[pop_i]))
         IN  f_channels(q, pop_i, xx, r_i + 1, loss)

\* the loop over the lattice in the lambda f: d is dp as written so far
RECURSIVE f_loop(_, _, _, _)
f_loop(q, pop_i, xx, d) ==
    IF pop_i >= n_elems(n_max) THEN [dp |-> d, x |-> xx]
    ELSE f_loop(q, pop_i + 1, next_pop(n_max, xx),
                [d EXCEPT ![pop_i] = f_channels(q, pop_i, xx, 0, RZero)])

\* a plausible slip: f accumulates into dp without clearing it first
RECURSIVE f_keep_dp_loop(_, _, _, _)
f_keep_dp_loop(q, pop_i, xx, d) ==
    IF pop_i >= n_elems(n_max) THEN [dp |-> d, x |-> xx]
    ELSE f_keep_dp_loop(q, pop_i + 1, next_pop(n_max, xx),
                [d EXCEPT ![pop_i] = f_channels(q, pop_i, xx, 0, d[pop_i])])

f_keep_dp(q, d) == f_keep_dp_loop(q, 0, [i \in DOMAIN n_max |-> 0], d)

\* the lambda f of cme::step applied to q while the member dp holds d: the
\* new contents of dp (which f returns by reference) and of the scratch x
f(q, d) == f_loop(q, 0, [i \in DOMAIN n_max |-> 0], d)

\* q + k * c, element by element (std::valarray arithmetic)
RECURSIVE axpy_loop(_, _, _, _, _)
axpy_loop(q, c, k, i, acc) ==
    IF i >= Cardinality(DOMAIN q) THEN acc
    ELSE axpy_loop(q, c, k, i + 1, [acc EXCEPT ![i] = RAdd(q[i], RMul(c, k[i]))])

axpy(q, c, k) == axpy_loop(q, c, k, 0, q)

\* The integrator strategy Integ (runge_kutta.hpp).  integ.step(p, dt, f)
\* advances the vector passed by reference by one step of size dt, calling f
\* for each stage; every call of f overwrites the member dp of the engine.
\* Result: the vector the integrator produced, and dp and x as f left them.
integ_step(integ, q, dt, d) ==
    CASE integ = "euler" ->
           CHOOSE r \in {[p |-> axpy(q, dt, k1.dp), dp |-> k1.dp, x |-> k1.x] :
                            k1 \in {f(q, d)}} : TRUE
      [] integ = "midpoint" ->
           CHOOSE r \in {[p |-> axpy(q, dt, k2.dp), dp |-> k2.dp, x |-> k2.x] :
                            k2 \in {f(axpy(q, RMul(dt, Rat(1, 2)), k1.dp), k1.dp) :
                                       k1 \in {f(q, d)}}} : TRUE

\* a plausible slip: the step leaves calculated_stats as it is
cme_step_keep_cache(integ, pp, d, tt, dt) ==
    CHOOSE s \in {[p |-> axpy(r.p, dt, r.dp), dp |-> r.dp, x |-> r.x,
                    t |-> round_to_T(RAdd(tt, dt)), calculated_stats |-> calculated_stats] :
                     r \in {integ_step(integ, pp, dt, d)}} : TRUE

\* cme::step(integ, dt) on the engine state (pp, d, tt):
\*   calculated_stats = false; integ.step(p, dt, f); p += dp * dt; t += dt;
cme_step(integ, pp, d, tt, dt) ==
    CHOOSE s \in {[p |-> axpy(r.p, dt, r.dp), dp |-> r.dp, x |-> r.x,
                    t |-> round_to_T(RAdd(tt, dt)), calculated_stats |-> FALSE] :
                     r \in {integ_step(integ, pp, dt, d)}} : TRUE

\* a loop test that stops as soon as the deadline is reached
cme_loop_cond_strict(tt, t_final) == RLt(tt, t_final)

\* the loop test of cme::simulate
cme_loop_cond(tt, t_final) == RLe(tt, t_final)

\* cme::simulate up to the first test of the loop condition: the push of the
\* initial state where asked for, i = 0, and the test
\* (t0 and n0 record the time and the number of steps made at the call)
cme_simulate_entry(pp, tt, list, integ, dt, t_final, rec, b_initial) ==
    LET list0 == IF rec /\ b_initial THEN Append(list, [p |-> pp, t |-> tt]) ELSE list
        running == cme_loop_cond(tt, t_final)
    IN  [csim |-> [status |-> IF running THEN "running" ELSE "returned",
                   integ |-> integ, dt |-> dt, t_final |-> t_final, rec |-> rec,
                   b_initial |-> b_initial, i |-> 0, t0 |-> tt, n0 |-> cme_nsteps,
                   len0 |-> Len(list)],
         cme_states |-> list0,
         cme_pc |-> IF running THEN "sim" ELSE "idle"]

\* one pass through the loop body of cme::simulate, then ++i and the loop test
cme_simulate_iteration(sm, pp, d, tt, list) ==
    CHOOSE s \in
        {[csim |-> [sm EXCEPT !.i = sm.i + 1,
                              !.status = IF cme_loop_cond(r.t, sm.t_final)
                                         THEN "running" ELSE "returned"],
          cme_states |-> IF sm.rec THEN Append(list, [p |-> r.p, t |-> r.t]) ELSE list,
          cme_pc |-> IF cme_loop_cond(r.t, sm.t_final) THEN "sim" ELSE "idle",
          step |-> r] : r \in {cme_step(sm.integ, pp, d, tt, sm.dt)}} : TRUE

\* a plausible slip: the probability is put on the last lattice state
cme_ctor_last(nm) ==
    IF \E i \in DOMAIN nm : nm[i] <= 0
    THEN [ret |-> "out_of_range", p |-> <<>>, dp |-> <<>>]
    ELSE [ret |-> "ok",
          p |-> [i \in 0..(n_elems(nm) - 1) |->
                   IF i = n_elems(nm) - 1 THEN ROne ELSE RZero],
          dp |-> [i \in 0..(n_elems(nm) - 1) |-> RZero]]

\* the base constructor cme::cme(n_max): throws before p is sized if a bound
\* is not positive; otherwise p and dp get n_elems entries and p[0] = 1
cme_ctor(nm) ==
    IF \E i \in DOMAIN nm : nm[i] <= 0
    THEN [ret |-> "out_of_range", p |-> <<>>, dp |-> <<>>]
    ELSE [ret |-> "ok",
          p |-> [i \in 0..(n_elems(nm) - 1) |-> IF i = 0 THEN ROne ELSE RZero],
          dp |-> [i \in 0..(n_elems(nm) - 1) |-> RZero]]

\* the constructors of ekinetics_cme, tqssa_cme and sqssa_cme are noexcept:
\* an exception leaving the base constructor calls std::terminate
model_ctor(mdl, et, st) ==
    LET base == cme_ctor(model_n_max(mdl, et, st))
    IN  IF base.ret = "out_of_range"
        THEN [base EXCEPT !.ret = "terminate"]
        ELSE base

\* a plausible slip: xn is not accumulated, every order adds p[pop_i] * x[j]
RECURSIVE calc_orders_first_power(_, _, _, _, _)
calc_orders_first_power(mj, xj, ppop, i, xn) ==
    IF i > moments_max_order THEN mj
    ELSE calc_orders_first_power([mj EXCEPT ![i] = RAdd(mj[i], RMul(ppop, RInt(xj)))],
                                 xj, ppop, i + 1, xn)

\* xn *= x[j]; m[j][i] += p[pop_i] * xn; for i = 1..moments_max_order
RECURSIVE calc_orders(_, _, _, _, _)
calc_orders(mj, xj, ppop, i, xn) ==
    IF i > moments_max_order THEN mj
    ELSE calc_orders([mj EXCEPT ![i] = RAdd(mj[i], RMul(ppop, RInt(xn * xj)))],
                     xj, ppop, i + 1, xn * xj)

\* for (j = 0; j < N_s; ++j) { xn = 1; the loop over the orders }
RECURSIVE calc_species(_, _, _, _)
calc_species(mm, xx, ppop, j) ==
    IF j >= cme_N_s(model) THEN mm
    ELSE calc_species([mm EXCEPT ![j] = calc_orders(mm[j], xx[j], ppop, 1, 1)],
                      xx, ppop, j + 1)

\* the sweep of calc_moments over the lattice
RECURSIVE calc_loop(_, _, _, _)
calc_loop(pp, pop_i, xx, mm) ==
    IF pop_i >= n_elems(n_max) THEN [m |-> mm, x |-> xx]
    ELSE calc_loop(pp, pop_i + 1, next_pop(n_max, xx),
                   calc_species(mm, xx, pp[pop_i], 0))

\* cme::calc_moments: nothing if calculated_stats, else m[j][0] = 1, the
\* other orders summed over the lattice, and calculated_stats = true
calc_moments(pp, mm, cs, xx) ==
    IF cs THEN [m |-> mm, calculated_stats |-> cs, x |-> xx]
    ELSE CHOOSE c \in
             {[m |-> r.m, calculated_stats |-> TRUE, x |-> r.x] :
                r \in {calc_loop(pp, 0, [i \in DOMAIN n_max |-> 0],
                                 [j \in 0..(cme_N_s(model) - 1) |->
                                    [i \in 0..moments_max_order |->
                                       IF i = 0 THEN ROne ELSE RZero]])}} : TRUE

\* what a query leaves behind when it throws std::out_of_range
query_throws(mm, cs, xx) ==
    [ret |-> "out_of_range", val |-> RZero, m |-> mm, calculated_stats |-> cs, x |-> xx]

\* the value a query returns, with the cache as calc_moments left it
query_returns(val, c) ==
    [ret |-> "value", val |-> val, m |-> c.m, calculated_stats |-> c.calculated_stats,
     x |-> c.x]

\* the common body of mean, msq and the low orders of nth_moment:
\*   if (s_i >= N_s) throw; calc_moments(); return m[s_i][i];
cached_moment(pp, mm, cs, xx, s_i, i) ==
    IF s_i >= cme_N_s(model) THEN query_throws(mm, cs, xx)
    ELSE CHOOSE r \in {query_returns(c.m[s_i][i], c) :
                          c \in {calc_moments(pp, mm, cs, xx)}} : TRUE

\* cme::mean
mean(pp, mm, cs, xx, s_i) == cached_moment(pp, mm, cs, xx, s_i, 1)

\* cme::msq
msq(pp, mm, cs, xx, s_i) == cached_moment(pp, mm, cs, xx, s_i, 2)

\* a plausible slip: the radicand is not clamped; the square root of a
\* negative number is not a number
sd_unclamped(pp, mm, cs, xx, s_i) ==
    IF s_i >= cme_N_s(model) THEN query_throws(mm, cs, xx)
    ELSE CHOOSE r \in
             {IF RLt(arg, RZero) THEN [query_returns(RZero, c) EXCEPT !.ret = "nan"]
              ELSE query_returns(sqrt(arg), c) :
                <<c, arg>> \in {<<c0, RSub(c0.m[s_i][2], RMul(c0.m[s_i][1], c0.m[s_i][1]))>> :
                                  c0 \in {calc_moments(pp, mm, cs, xx)}}} : TRUE

\* cme::sd:  arg = m[s_i][2] - m[s_i][1]*m[s_i][1]; return arg > 0 ? sqrt(arg) : 0;
sd(pp, mm, cs, xx, s_i) ==
    IF s_i >= cme_N_s(model) THEN query_throws(mm, cs, xx)
    ELSE CHOOSE r \in
             {query_returns(IF RGt(arg, RZero) THEN sqrt(arg) ELSE RZero, c) :
                <<c, arg>> \in {<<c0, RSub(c0.m[s_i][2], RMul(c0.m[s_i][1], c0.m[s_i][1]))>> :
                                  c0 \in {calc_moments(pp, mm, cs, xx)}}} : TRUE

\* std::pow(b, n) for an integer b and n >= 0
RECURSIVE pow(_, _)
pow(b, n) == IF n = 0 THEN 1 ELSE b * pow(b, n - 1)

\* the sweep of nth_moment for the orders above moments_max_order
RECURSIVE nth_moment_loop(_, _, _, _, _, _)
nth_moment_loop(pp, pop_i, xx, s_i, n, mom) ==
    IF pop_i >= n_elems(n_max) THEN [mom |-> mom, x |-> xx]
    ELSE nth_moment_loop(pp, pop_i + 1, next_pop(n_max, xx), s_i, n,
                         RAdd(mom, RMul(pp[pop_i], RInt(pow(xx[s_i], n)))))

\* cme::nth_moment
nth_moment(pp, mm, cs, xx, s_i, n) ==
    IF s_i >= cme_N_s(model) THEN query_throws(mm, cs, xx)
    ELSE IF n <= moments_max_order THEN cached_moment(pp, mm, cs, xx, s_i, n)
    ELSE CHOOSE v \in
             {query_returns(r.mom, [m |-> mm, calculated_stats |-> cs, x |-> r.x]) :
                r \in {nth_moment_loop(pp, 0, [i \in DOMAIN n_max |-> 0], s_i, n,
                                       RZero)}} : TRUE

-----------------------------------------------------------------------------
(* The calls of the user of the CME engine *)

Models == {"ekinetics", "tqssa", "sqssa"}
CmeRates == {[r \in 0..(ekrc_N - 1) |-> 1]}
\* the totals ET and ST each model is constructed with; the bounds ET + 1 and
\* ST + 1 derived from -1 are not positive
EnzymeTotals(mdl) == IF mdl = "ekinetics" THEN {-1, 1} ELSE {1}
SubstrateTotals(mdl) == IF mdl = "ekinetics" THEN {-1, 0, 2} ELSE {-1, 1}
\* kcat and kM of the reduced models: with ET = 1 and ST = 1 the radicand
\* Delta of tqssa_cme::a is the square of a fraction in every lattice state
QssaRates == {ROne}
QssaConstants == {Rat(1, 2)}
Integrators == {"euler", "midpoint"}
StepSizes == {ROne}
CmeDeadlines == {RZero, Rat(1, 2)}
Orders == 0..(moments_max_order + 1)

\* T t; is not initialized by the constructor: its first read finds any value
InitialClocks == {RZero, Rat(-1, 1)}

\* m is not initialized either, but is not read before calc_moments has
\* written it (calculated_stats = false): one value stands for its contents
UninitializedMoments(mdl) ==
    [j \in 0..(cme_N_s(mdl) - 1) |-> [i \in 0..moments_max_order |-> <<-1, 1>>]]

\* number of steps a simulate with dt > 0 makes from time tt: used to keep
\* every simulate call within MaxCmeSteps
RECURSIVE steps_to_pass(_, _, _)
steps_to_pass(tt, dt, t_final) ==
    IF cme_loop_cond(tt, t_final) THEN 1 + steps_to_pass(round_to_T(RAdd(tt, dt)), dt, t_final)
    ELSE 0

\* ekinetics_cme sys(kappa, ET, ST) / tqssa_cme sys(kM, kcat, ET, ST) / sqssa_cme
Construct ==
    /\ engine = "none"
    /\ \E mdl \in Models :
       \E et \in EnzymeTotals(mdl), st \in SubstrateTotals(mdl),
          kap \in IF mdl = "ekinetics" THEN CmeRates ELSE {kappa},
          kc \in IF mdl = "ekinetics" THEN {RZero} ELSE QssaRates,
          km \in IF mdl = "ekinetics" THEN {RZero} ELSE QssaConstants,
          t0 \in InitialClocks :
        \E r \in {model_ctor(mdl, et, st)} :
            /\ model' = mdl
            /\ ET' = et
            /\ ST' = st
            /\ kappa' = kap
            /\ kcat' = kc
            /\ kM' = km
            /\ n_max' = model_n_max(mdl, et, st)
            /\ engine' = CASE r.ret = "ok" -> "constructed"
                            [] r.ret = "out_of_range" -> "thrown"
                            [] r.ret = "terminate" -> "terminated"
            /\ p' = r.p
            /\ dp' = r.dp
            /\ cme_x' = IF r.ret = "ok" THEN [i \in 0..(cme_N_s(mdl) - 1) |-> 0] ELSE <<>>
            /\ cme_t' = IF r.ret = "ok" THEN t0 ELSE RZero
            /\ m' = IF r.ret = "ok" THEN UninitializedMoments(mdl) ELSE <<>>
    /\ calculated_stats' = FALSE
    /\ UNCHANGED <<idx_y, idx_i, idx_back, idx_op, x, t, states, pc, sim, last, nsteps,
                   ssa_model, acall,
                   cme_pc, csim, cme_states, cq, cme_nsteps>>

\* sys.step(integ, dt)
CmeStep ==
    /\ engine = "constructed"
    /\ cme_pc = "idle"
    /\ cme_nsteps < MaxCmeSteps
    /\ \E integ \in Integrators, dt \in StepSizes :
        \E r \in {cme_step(integ, p, dp, cme_t, dt)} :
            /\ p' = r.p
            /\ dp' = r.dp
            /\ cme_x' = r.x
            /\ cme_t' = r.t
            /\ calculated_stats' = r.calculated_stats
            /\ cq' = [NoQuery EXCEPT !.op = "step", !.integ = integ, !.dt = dt,
                                     !.ret = "void"]
    /\ cme_nsteps' = cme_nsteps + 1
    /\ csim' = NoCmeSim
    /\ cme_states' = <<>>
    /\ UNCHANGED <<idxvars, ssavars, model, kcat, kM, engine, m, cme_pc>>

\* sys.simulate(integ, dt, t_final)
CmeSimulate ==
    /\ engine = "constructed"
    /\ cme_pc = "idle"
    /\ \E integ \in Integrators, dt \in StepSizes, t_final \in CmeDeadlines :
        /\ cme_nsteps + steps_to_pass(cme_t, dt, t_final) <= MaxCmeSteps
        /\ \E r \in {cme_simulate_entry(p, cme_t, <<>>, integ, dt, t_final, FALSE, FALSE)} :
               /\ csim' = r.csim
               /\ cme_states' = r.cme_states
               /\ cme_pc' = r.cme_pc
    /\ cq' = NoQuery
    /\ UNCHANGED <<idxvars, ssavars, model, kcat, kM, engine, p, dp, cme_x, cme_t, m,
                   calculated_stats, cme_nsteps>>

\* sys.simulate(integ, states, dt, t_final, b_initial) with an empty vector
CmeSimulateStates ==
    /\ engine = "constructed"
    /\ cme_pc = "idle"
    /\ \E integ \in Integrators, dt \in StepSizes, t_final \in CmeDeadlines,
          b_initial \in BOOLEAN :
        /\ cme_nsteps + steps_to_pass(cme_t, dt, t_final) <= MaxCmeSteps
        /\ \E r \in {cme_simulate_entry(p, cme_t, <<>>, integ, dt, t_final, TRUE, b_initial)} :
               /\ csim' = r.csim
               /\ cme_states' = r.cme_states
               /\ cme_pc' = r.cme_pc
    /\ cq' = NoQuery
    /\ UNCHANGED <<idxvars, ssavars, model, kcat, kM, engine, p, dp, cme_x, cme_t, m,
                   calculated_stats, cme_nsteps>>

\* one iteration of the loop of the running cme::simulate
CmeSimulateLoop ==
    /\ cme_pc = "sim"
    /\ \E r \in {cme_simulate_iteration(csim, p, dp, cme_t, cme_states)} :
           /\ csim' = r.csim
           /\ cme_states' = r.cme_states
           /\ cme_pc' = r.cme_pc
           /\ p' = r.step.p
           /\ dp' = r.step.dp
           /\ cme_x' = r.step.x
           /\ cme_t' = r.step.t
           /\ calculated_stats' = r.step.calculated_stats
    /\ cme_nsteps' = cme_nsteps + 1
    /\ UNCHANGED <<idxvars, ssavars, model, kcat, kM, engine, m, cq>>

\* sys.mean(s_i)
Mean ==
    /\ engine = "constructed"
    /\ cme_pc = "idle"
    /\ \E s_i \in 0..cme_N_s(model) :
        \E r \in {mean(p, m, calculated_stats, cme_x, s_i)} :
            /\ cq' = [NoQuery EXCEPT !.op = "mean", !.s_i = s_i,
                                     !.ret = r.ret, !.val = r.val]
            /\ m' = r.m
            /\ calculated_stats' = r.calculated_stats
            /\ cme_x' = r.x
    /\ csim' = NoCmeSim
    /\ cme_states' = <<>>
    /\ UNCHANGED <<idxvars, ssavars, model, kcat, kM, engine, p, dp, cme_t, cme_pc,
                   cme_nsteps>>

\* sys.msq(s_i)
Msq ==
    /\ engine = "constructed"
    /\ cme_pc = "idle"
    /\ \E s_i \in 0..cme_N_s(model) :
        \E r \in {msq(p, m, calculated_stats, cme_x, s_i)} :
            /\ cq' = [NoQuery EXCEPT !.op = "msq", !.s_i = s_i,
                                     !.ret = r.ret, !.val = r.val]
            /\ m' = r.m
            /\ calculated_stats' = r.calculated_stats
            /\ cme_x' = r.x
    /\ csim' = NoCmeSim
    /\ cme_states' = <<>>
    /\ UNCHANGED <<idxvars, ssavars, model, kcat, kM, engine, p, dp, cme_t, cme_pc,
                   cme_nsteps>>

\* sys.sd(s_i)
Sd ==
    /\ engine = "constructed"
    /\ cme_pc = "idle"
    /\ \E s_i \in 0..cme_N_s(model) :
        \E r \in {sd(p, m, calculated_stats, cme_x, s_i)} :
            /\ cq' = [NoQuery EXCEPT !.op = "sd", !.s_i = s_i,
                                     !.ret = r.ret, !.val = r.val]
            /\ m' = r.m
            /\ calculated_stats' = r.calculated_stats
            /\ cme_x' = r.x
    /\ csim' = NoCmeSim
    /\ cme_states' = <<>>
    /\ UNCHANGED <<idxvars, ssavars, model, kcat, kM, engine, p, dp, cme_t, cme_pc,
                   cme_nsteps>>

\* sys.nth_moment(s_i, n)
NthMoment ==
    /\ engine = "constructed"
    /\ cme_pc = "idle"
    /\ \E s_i \in 0..cme_N_s(model), n \in Orders :
        \E r \in {nth_moment(p, m, calculated_stats, cme_x, s_i, n)} :
            /\ cq' = [NoQuery EXCEPT !.op = "nth_moment", !.s_i = s_i, !.n = n,
                                     !.ret = r.ret, !.val = r.val]
            /\ m' = r.m
            /\ calculated_stats' = r.calculated_stats
            /\ cme_x' = r.x
    /\ csim' = NoCmeSim
    /\ cme_states' = <<>>
    /\ UNCHANGED <<idxvars, ssavars, model, kcat, kM, engine, p, dp, cme_t, cme_pc,
                   cme_nsteps>>

\* the population vectors of the lattice of the engine
LatticeStates == {get_pop(n_max, i) : i \in 0..(n_elems(n_max) - 1)}

\* sys.a(y, r_i): the propensity function is a public member
CallA ==
    /\ engine = "constructed"
    /\ cme_pc = "idle"
    /\ \E y \in LatticeStates, r_i \in 0..cme_N_r(model) :
        cq' = IF cme_a_throws(y, r_i)
              THEN [NoQuery EXCEPT !.op = "a", !.y = y, !.r_i = r_i,
                                   !.ret = "out_of_range"]
              ELSE [NoQuery EXCEPT !.op = "a", !.y = y, !.r_i = r_i,
                                   !.ret = "value", !.val = cme_a(y, r_i)]
    /\ csim' = NoCmeSim
    /\ cme_states' = <<>>
    /\ UNCHANGED <<idxvars, ssavars, model, kcat, kM, engine, p, dp, cme_x, cme_t, m,
                   calculated_stats, cme_pc, cme_nsteps>>

-----------------------------------------------------------------------------
(* Specifications *)

IdxNext == CallGetIndex \/ CallGetPop \/ CallGetPopOfIndex \/ CallGetIndexOfPop

StepNext == Step \/ Reset

SimNext == Simulate \/ SimulateStates \/ SimulateLoop \/ Reset

PropNext == SetX \/ CallPropensity

\* a cme constructed on any lattice; the Gillespie engine is not used
IdxInit ==
    /\ n_max \in Lattices
    /\ idx_y = [i \in DOMAIN n_max |-> 0]
    /\ idx_i = 0
    /\ idx_back = 0
    /\ idx_op = "none"
    /\ kappa = [r \in 0..(N_r - 1) |-> 0]
    /\ ET = 0
    /\ ST = 0
    /\ x = [s \in 0..(N_s - 1) |-> 0]
    /\ t = RZero
    /\ states = <<>>
    /\ pc = "idle"
    /\ sim = NoSim
    /\ last = NoStep
    /\ nsteps = 0
    /\ ssa_model = "ssek"
    /\ acall = NoCall
    /\ model = "none"
    /\ kcat = RZero
    /\ kM = RZero
    /\ engine = "none"
    /\ p = <<>>
    /\ dp = <<>>
    /\ cme_x = <<>>
    /\ cme_t = RZero
    /\ m = <<>>
    /\ calculated_stats = FALSE
    /\ cme_pc = "idle"
    /\ csim = NoCmeSim
    /\ cme_states = <<>>
    /\ cq = NoQuery
    /\ cme_nsteps = 0

\* the indexer on every lattice
SpecIdx == IdxInit /\ [][IdxNext]_vars

\* a freshly constructed ssek_gillespie; the indexer is not used
SSAInit ==
    /\ kappa \in [0..(N_r - 1) -> RateConstants]
    /\ ET \in Totals
    /\ ST \in Totals
    /\ x = [s \in 0..(N_s - 1) |-> 0]
    /\ t = RZero
    /\ states = <<>>
    /\ pc = "idle"
    /\ sim = NoSim
    /\ last = NoStep
    /\ nsteps = 0
    /\ ssa_model = "ssek"
    /\ acall = NoCall
    /\ n_max = [i \in 0..0 |-> 1]
    /\ idx_y = [i \in 0..0 |-> 0]
    /\ idx_i = 0
    /\ idx_back = 0
    /\ idx_op = "none"
    /\ model = "none"
    /\ kcat = RZero
    /\ kM = RZero
    /\ engine = "none"
    /\ p = <<>>
    /\ dp = <<>>
    /\ cme_x = <<>>
    /\ cme_t = RZero
    /\ m = <<>>
    /\ calculated_stats = FALSE
    /\ cme_pc = "idle"
    /\ csim = NoCmeSim
    /\ cme_states = <<>>
    /\ cq = NoQuery
    /\ cme_nsteps = 0

\* the Gillespie engine driven by the user's calls of step
SpecStep == SSAInit /\ [][StepNext]_vars

\* the Gillespie engine driven by the user's calls of simulate
SpecSim == SSAInit /\ [][SimNext]_vars

\* the propensity function called at population numbers chosen by the user
SpecProp == SSAInit /\ [][PropNext]_vars

CmeNext ==
    \/ Construct
    \/ CmeStep
    \/ CmeSimulate
    \/ CmeSimulateStates
    \/ CmeSimulateLoop
    \/ Mean
    \/ Msq
    \/ Sd
    \/ NthMoment
    \/ CallA

\* no CME engine constructed yet; the Gillespie engine is not used
CmeInit ==
    /\ n_max = [i \in 0..0 |-> 1]
    /\ idx_y = [i \in 0..0 |-> 0]
    /\ idx_i = 0
    /\ idx_back = 0
    /\ idx_op = "none"
    /\ kappa = [r \in 0..(N_r - 1) |-> 0]
    /\ ET = 0
    /\ ST = 0
    /\ x = [s \in 0..(N_s - 1) |-> 0]
    /\ t = RZero
    /\ states = <<>>
    /\ pc = "idle"
    /\ sim = NoSim
    /\ last = NoStep
    /\ nsteps = 0
    /\ ssa_model = "ssek"
    /\ acall = NoCall
    /\ model = "none"
    /\ kcat = RZero
    /\ kM = RZero
    /\ engine = "none"
    /\ p = <<>>
    /\ dp = <<>>
    /\ cme_x = <<>>
    /\ cme_t = RZero
    /\ m = <<>>
    /\ calculated_stats = FALSE
    /\ cme_pc = "idle"
    /\ csim = NoCmeSim
    /\ cme_states = <<>>
    /\ cq = NoQuery
    /\ cme_nsteps = 0

\* the CME engine of each model, from its construction on
SpecCme == CmeInit /\ [][CmeNext]_vars

\* the step sizes and deadlines of the simulate calls that follow the clock
\* over many steps: dt of either sign and 0, and a deadline at which the
\* clock of type T no longer moves by dt = 1
LongStepSizes == {ROne, RZero, Rat(-1, 1)}
LongDeadlines == {RZero, Rat(4, 1)}

\* sys.simulate(integ, dt, t_final) and
\* sys.simulate(integ, states, dt, t_final, true) with an empty vector
CmeSimulateLong ==
    /\ engine = "constructed"
    /\ cme_pc = "idle"
    /\ cme_nsteps < MaxClockSteps
    /\ \E integ \in Integrators, dt \in LongStepSizes, t_final \in LongDeadlines,
          rec \in BOOLEAN :
        \E r \in {cme_simulate_entry(p, cme_t, <<>>, integ, dt, t_final, rec, rec)} :
               /\ csim' = r.csim
               /\ cme_states' = r.cme_states
               /\ cme_pc' = r.cme_pc
    /\ cq' = NoQuery
    /\ UNCHANGED <<idxvars, ssavars, model, kcat, kM, engine, p, dp, cme_x, cme_t, m,
                   calculated_stats, cme_nsteps>>

\* one iteration of the loop of the running cme::simulate, observed for
\* MaxClockSteps steps of the engine
CmeSimulateLoopBounded ==
    /\ cme_nsteps < MaxClockSteps
    /\ CmeSimulateLoop

ClockNext == Construct \/ CmeSimulateLong \/ CmeSimulateLoopBounded

\* the CME engine driven by simulate calls with long runs and dt of any sign
SpecClock == CmeInit /\ [][ClockNext]_vars

-----------------------------------------------------------------------------
(* The reduced one-species Gillespie engines: tqssa_gillespie, sqssa_gillespie *)

\* the quiet NaN of T, written as the fraction 0/0: every ordered comparison
\* with it (RLt, RLe, RGt) is false and it is different from RZero
NaN == <<0, 0>>

\* T + T
FAdd(u, v) == IF u = NaN \/ v = NaN THEN NaN ELSE RAdd(u, v)

\* T / T, for the operands the constructions below produce: a divisor 0 is
\* met only with the dividend 0
FDiv(u, v) ==
    IF u = NaN \/ v = NaN \/ (u[1] = 0 /\ v[1] = 0) THEN NaN ELSE RDiv(u, v)

\* if (x[tqs_P] > ST) throw std::domain_error(...), the same in both classes
qssa_domain_error_inclusive(xx) == xx[tqs_P] >= ST

qssa_domain_error(xx) == xx[tqs_P] > ST

\* tqssa_gillespie::a, case 0
tqssa_gillespie_a(xx) ==
    LET S_hat == ST - xx[tqs_P]
        c == 2 * ET * S_hat
        b == RAdd(RInt(ET + S_hat), kM)
        Delta == RSub(RMul(b, b), RInt(2 * c))
    IN  FDiv(RMul(kcat, RInt(c)), RAdd(b, sqrt(Delta)))

\* sqssa_gillespie::a, case 0
sqssa_gillespie_a(xx) ==
    LET S == ST - xx[sqs_P]
    IN  FDiv(RMul(kcat, RInt(ET * S)), RAdd(RInt(S), kM))

\* the virtual call a(0) of the engine constructed
qssa_a(xx) ==
    IF ssa_model = "tqssa" THEN tqssa_gillespie_a(xx) ELSE sqssa_gillespie_a(xx)

\* gillespie<1, 1, T>::step(t_final): total_propensity is 0 + a(0); the
\* selection loop for (j = 0; j < N_r-1; ++j) has no iteration and leaves
\* j = 0; nu[0] = {1}
qssa_step(xx, tt, t_final, w) ==
    IF qssa_domain_error(xx)
    THEN [NoStep EXCEPT !.ret = "domain_error", !.x0 = xx, !.t0 = tt,
                        !.t_final = t_final, !.x1 = xx, !.t1 = tt]
    ELSE CHOOSE r \in
        {IF a_tot = RZero
         THEN [NoStep EXCEPT !.ret = "false", !.x0 = xx, !.t0 = tt,
                             !.t_final = t_final, !.a_tot = a_tot,
                             !.x1 = xx, !.t1 = tt]
         ELSE CHOOSE q \in
             {IF RGt(FAdd(tt, tau), t_final) /\ RGt(t_final, RZero)
              THEN [NoStep EXCEPT !.ret = "false", !.x0 = xx, !.t0 = tt,
                                  !.t_final = t_final, !.a_tot = a_tot,
                                  !.tau = tau, !.x1 = xx, !.t1 = tt]
              ELSE [NoStep EXCEPT !.ret = "true", !.x0 = xx, !.t0 = tt,
                                  !.t_final = t_final, !.a_tot = a_tot,
                                  !.tau = tau, !.t1 = FAdd(tt, tau),
                                  !.x1 = [s \in DOMAIN xx |-> xx[s] + 1]] :
                 tau \in {FDiv(RInt(w), a_tot)}} : TRUE :
            a_tot \in {FAdd(RZero, qssa_a(xx))}} : TRUE

\* gillespie<1, 1, T>::simulate(n, t_final) from iteration i on, with the
\* record s of the call so far and w = -log(r1) of every step:
\* for (i = 0; i < n && (t <= t_final || t_final <= 0); ++i) if (!step(t_final)) break;
RECURSIVE qssa_simulate(_, _, _, _, _)
qssa_simulate(xx, tt, i, s, w) ==
    IF ~(i < s.n /\ (RLe(tt, s.t_final) \/ RLe(s.t_final, RZero)))
    THEN [sim |-> [s EXCEPT !.status = "returned", !.i = i], x |-> xx, t |-> tt]
    ELSE CHOOSE q \in
        {CASE r.ret = "true" ->
                qssa_simulate(r.x1, r.t1, i + 1,
                              [s EXCEPT !.calls = @ + 1, !.accepted = @ + 1], w)
           [] r.ret = "false" ->
                [sim |-> [s EXCEPT !.status = "returned", !.i = i, !.calls = @ + 1,
                                   !.false_seen = TRUE],
                 x |-> xx, t |-> tt]
           [] r.ret = "domain_error" ->
                [sim |-> [s EXCEPT !.status = "thrown", !.i = i, !.calls = @ + 1],
                 x |-> xx, t |-> tt] :
            r \in {qssa_step(xx, tt, s.t_final, w)}} : TRUE

\* the constants the reduced engines are constructed with.  kM = (kb+kcat)/kf
\* is positive for rate constants of a reaction; 0 is what kb = -kcat gives
QssaModels == {"tqssa", "sqssa"}
QssaEnzymes == {1, 2}
QssaSubstrates == {0, 1, 2}
QssaCatalysis == {ROne, Rat(1, 2)}
QssaMichaelis == {Rat(1, 2), RZero}
\* "set t_final to 0 or negative number for infinity"
NoDeadline == {RZero, Rat(-1, 1)}

\* the radicand Delta of tqssa_gillespie::a is the square of a fraction at
\* every P in 0..ST, so that every rate of the run is a fraction
ExactRates(mdl, km, et, st) ==
    mdl = "tqssa" =>
        \A P \in 0..st :
            LET b == RAdd(RInt(et + st - P), km)
            IN  Len(sqrt(RSub(RMul(b, b), RInt(4 * et * (st - P))))) = 2

\* sys.step() / sys.step(t_final) with no deadline
QssaStep ==
    /\ pc = "idle"
    /\ nsteps < MaxCalls
    /\ \E t_final \in NoDeadline, w \in Variates1 :
        \E r \in {qssa_step(x, t, t_final, w)} :
            /\ x' = r.x1
            /\ t' = r.t1
            /\ last' = r
    /\ nsteps' = nsteps + 1
    /\ sim' = NoSim
    /\ UNCHANGED <<kappa, ET, ST, states, pc, ssa_model, acall, idxvars, cmevars>>

\* sys.simulate(n) / sys.simulate(n, t_final) with no deadline; nsteps counts
\* the calls of step made on the engine, those made by simulate included
QssaSimulate ==
    /\ pc = "idle"
    /\ nsteps < MaxCalls
    /\ \E n \in 0..MaxN, t_final \in NoDeadline, w \in Variates1 :
        \E r \in {qssa_simulate(x, t, 0, [NoSim EXCEPT !.n = n, !.t_final = t_final], w)} :
            /\ x' = r.x
            /\ t' = r.t
            /\ sim' = r.sim
            /\ nsteps' = nsteps + r.sim.calls
    /\ last' = NoStep
    /\ UNCHANGED <<kappa, ET, ST, states, pc, ssa_model, acall, idxvars, cmevars>>

QssaNext == QssaStep \/ QssaSimulate

\* a freshly constructed tqssa_gillespie or sqssa_gillespie
QssaInit ==
    /\ kappa = [i \in 0..(N_r - 1) |-> 0]
    /\ ssa_model \in QssaModels
    /\ ET \in QssaEnzymes
    /\ ST \in QssaSubstrates
    /\ kcat \in QssaCatalysis
    /\ kM \in QssaMichaelis
    /\ ExactRates(ssa_model, kM, ET, ST)
    /\ x = [s \in 0..0 |-> 0]
    /\ t = RZero
    /\ states = <<>>
    /\ pc = "idle"
    /\ sim = NoSim
    /\ last = NoStep
    /\ nsteps = 0
    /\ acall = NoCall
    /\ n_max = [i \in 0..0 |-> 1]
    /\ idx_y = [i \in 0..0 |-> 0]
    /\ idx_i = 0
    /\ idx_back = 0
    /\ idx_op = "none"
    /\ model = "none"
    /\ engine = "none"
    /\ p = <<>>
    /\ dp = <<>>
    /\ cme_x = <<>>
    /\ cme_t = RZero
    /\ m = <<>>
    /\ calculated_stats = FALSE
    /\ cme_pc = "idle"
    /\ csim = NoCmeSim
    /\ cme_states = <<>>
    /\ cq = NoQuery
    /\ cme_nsteps = 0

\* the reduced engines driven by the user's calls of step and simulate
SpecQssa == QssaInit /\ [][QssaNext]_vars

-----------------------------------------------------------------------------
(* Properties of the state-space indexer, checked under SpecIdx *)

\* the weight of species i in the mixed-radix code: the product of n_max[j], j > i
RECURSIVE RadixWeight(_, _)
RadixWeight(nm, i) ==
    IF i + 1 >= Dim(nm) THEN 1 ELSE nm[i + 1] * RadixWeight(nm, i + 1)

\* the sum of y[j] * RadixWeight(nm, j) over the species j >= i
RECURSIVE MixedRadixFrom(_, _, _)
MixedRadixFrom(nm, y, i) ==
    IF i >= Dim(nm) THEN 0
    ELSE y[i] * RadixWeight(nm, i) + MixedRadixFrom(nm, y, i + 1)

\* C1: get_index and get_pop are mutually inverse between the lattice and the
\* index range: get_pop(get_index(y)) = y for every y inside the lattice,
\* get_index(get_pop(i)) = i for every i in [0, prod n_max[i]), get_index maps
\* the lattice into the index range and get_pop maps the range into the lattice.
C1_IndexPopInverse ==
    /\ idx_op = "index" => idx_i \in 0..(RadixWeight(n_max, -1) - 1)
    /\ idx_op = "pop" => idx_y \in InLattice(n_max)
    /\ idx_op = "index_pop" => idx_back = idx_y
    /\ idx_op = "pop_index" => idx_back = idx_i

\* a round trip through the index of the last state of a lattice with three
\* species and two different bounds
C1_Witness ==
    /\ idx_op = "index_pop"
    /\ Dim(n_max) = 3
    /\ n_max[0] # n_max[1]
    /\ \A i \in DOMAIN n_max : idx_y[i] = n_max[i] - 1
    /\ idx_back = idx_y

\* C2: for every population vector y inside the lattice, get_index(y) is the
\* mixed-radix value sum_i y[i] * prod_{j>i} n_max[j] (species 0 the most
\* significant) and lies in [0, prod n_max[i]), which is n_elems().
C2_IndexIsMixedRadix ==
    idx_op = "index" =>
        /\ idx_i = MixedRadixFrom(n_max, idx_y, 0)
        /\ 0 <= idx_i
        /\ idx_i < RadixWeight(n_max, -1)
        /\ n_elems(n_max) = RadixWeight(n_max, -1)

\* the index of a vector with a non-zero first and last species, on a lattice
\* whose bounds differ
C2_Witness ==
    /\ idx_op = "index"
    /\ Dim(n_max) = 3
    /\ n_max[0] # n_max[2]
    /\ idx_y[0] > 0
    /\ idx_y[2] > 0
    /\ idx_i = idx_y[0] * n_max[1] * n_max[2] + idx_y[1] * n_max[2] + idx_y[2]

-----------------------------------------------------------------------------
(* Properties of gillespie::step, checked under SpecStep *)

\* a transition that is one call of step by the user
StepCalled == nsteps' = nsteps + 1

\* C3: whenever total_propensity() == 0 at the current x, step (with any
\* deadline) returns false and leaves x and t exactly as they were; as x is
\* unchanged, the next call finds the same total propensity and does the same.
C3_ZeroPropensityNoOp ==
    [][(StepCalled /\ ~domain_error(x) /\ total_propensity(x) = 0)
        => (last'.ret = "false" /\ x' = x /\ t' = t)]_vars

\* step has returned false at zero total propensity, in the state where all the
\* substrate is product, which earlier reactions have led to
C3_Witness ==
    /\ last.ret = "false"
    /\ last.a_tot = 0
    /\ ST > 0
    /\ x[sss_P] = ST
    /\ x = last.x0
    /\ t = last.t0
    /\ RGt(t, RZero)

C5_DeadlineRejects ==
    (/\ last.ret \in {"true", "false"}
     /\ last.a_tot # 0
     /\ RGt(last.t_final, RZero)
     /\ RGt(RAdd(last.t0, last.tau), last.t_final))
    => (last.ret = "false" /\ x = last.x0 /\ t = last.t0)

\* a reaction rejected on the deadline, from a state reached by a reaction, with
\* the clock still before the deadline
C5_Witness ==
    /\ last.ret = "false"
    /\ last.a_tot > 0
    /\ RGt(last.t_final, RZero)
    /\ RGt(RAdd(last.t0, last.tau), last.t_final)
    /\ RLt(RZero, t)
    /\ RLt(t, last.t_final)
    /\ x[sss_C] = 1

\* the sum a(xx,0) + ... + a(xx,j)
RECURSIVE PrefixSum(_, _)
PrefixSum(xx, j) == IF j < 0 THEN 0 ELSE PrefixSum(xx, j - 1) + a(xx, j)

\* the prefix sum up to channel k exceeds r2 * a0
Exceeds(xx, k, r2) == PrefixSum(xx, k) * r2[2] > r2[1] * PrefixSum(xx, N_r - 1)

\* C6: a call of step that returns true performs exactly one reaction: channel j
\* is the smallest index whose prefix sum a(x,0)+...+a(x,j) exceeds r2*a0, or
\* the last channel if no earlier prefix sum does; then t = t + tau and
\* x = x + nu[j] for that single j, and the model's constants are untouched.
C6_OneReaction ==
    last.ret = "true" =>
        /\ \A k \in 0..(last.j - 1) : ~Exceeds(last.x0, k, last.r2)
        /\ Exceeds(last.x0, last.j, last.r2) \/ last.j = N_r - 1
        /\ last.j \in 0..(N_r - 1)
        /\ \A s \in 0..(N_s - 1) : x[s] = last.x0[s] + nu[last.j][s]
        /\ t = RAdd(last.t0, last.tau)
        /\ RGt(last.tau, RZero)
        /\ last.tau[1] * last.a_tot \in {w * last.tau[2] : w \in Variates1}

\* channel b fired because the prefix sum a(0)+a(1) exceeded r2*a0 although
\* a(1) alone did not
C6_Witness ==
    /\ last.ret = "true"
    /\ last.j = ssrc_b
    /\ a(last.x0, ssrc_b) * last.r2[2] <= last.r2[1] * last.a_tot
    /\ x[sss_C] = last.x0[sss_C] - 1
    /\ x[sss_P] = last.x0[sss_P]

-----------------------------------------------------------------------------
(* Properties of gillespie::simulate, checked under SpecSim *)

\* C7: simulate(n, deadline) calls step at most n times, performs at most n
\* reactions, and stops without raising the first time step returns false:
\* the false call is the last call of step within that simulate call.
C7_SimulateStops ==
    sim.status # "none" =>
        /\ sim.calls <= sim.n
        /\ sim.accepted <= sim.n
        /\ sim.i = sim.accepted
        /\ sim.false_seen =>
              (sim.status = "returned" /\ pc = "idle" /\ sim.calls = sim.accepted + 1)
        /\ (~sim.false_seen /\ sim.status # "thrown") => sim.calls = sim.accepted
        /\ (pc = "sim") = (sim.status = "running")

\* simulate(n, deadline) stopped before n calls, on a reaction rejected by the
\* deadline
C7_Witness ==
    /\ ~sim.rec
    /\ sim.status = "returned"
    /\ sim.false_seen
    /\ sim.calls < sim.n
    /\ RGt(sim.t_final, RZero)
    /\ total_propensity(x) > 0

\* the snapshot {x, t} of the engine as it is now
Snapshot == [x |-> x, t |-> t]

C9_FinalStateIncluded ==
    (sim.rec /\ sim.status = "returned" /\ sim.len0 = 0) =>
        (Len(states) > 0 /\ states[Len(states)] = Snapshot)

\* C10: a deadline t_final <= 0 is infinity.  step never rejects a reaction on
\* deadline grounds: a false return inside simulate means the total propensity
\* is zero.  simulate is limited only by n and by a false step: it returns after
\* n accepted steps or after a false step, and runs on otherwise.
C10_NoDeadline ==
    (sim.status # "none" /\ RLe(sim.t_final, RZero)) =>
        /\ sim.false_seen => (~domain_error(x) /\ total_propensity(x) = 0)
        /\ sim.status = "returned" => (sim.accepted = sim.n \/ sim.false_seen)
        /\ sim.status = "running" => sim.accepted < sim.n

\* simulate with a negative t_final performed all its n = 2 reactions although
\* the clock is past every deadline a positive t_final of the model could set
C10_Witness ==
    /\ sim.status = "returned"
    /\ RLt(sim.t_final, RZero)
    /\ sim.n = 2
    /\ sim.accepted = 2
    /\ RGt(t, Rat(1, 1))

-----------------------------------------------------------------------------
(* Properties of the CME engine, checked under SpecCme *)

\* the population vector with flat index i, and the flat index of the lattice
\* state y, through the state-space indexer
PopOf(i) == get_pop(n_max, i)
IndexOf(y) == CHOOSE i \in 0..(n_elems(n_max) - 1) : PopOf(i) = y

\* the gain of lattice state xs through channel r when the probabilities are q
GainTerm(q, xs, r) ==
    LET src == vec_minus(xs, cme_nu(model)[r])
    IN  IF src \in LatticeStates THEN RMul(cme_a(src, r), q[IndexOf(src)])
        ELSE RZero

\* sum of the gains through the channels 0..r
RECURSIVE GainSum(_, _, _)
GainSum(q, xs, r) ==
    IF r < 0 THEN RZero ELSE RAdd(GainSum(q, xs, r - 1), GainTerm(q, xs, r))

\* sum of the propensities a(xs, r') of the channels 0..r
RECURSIVE PropensitySum(_, _)
PropensitySum(xs, r) ==
    IF r < 0 THEN RZero ELSE RAdd(PropensitySum(xs, r - 1), cme_a(xs, r))

\* the right-hand side of the chemical master equation at q
MasterEquation(q) ==
    [i \in 0..(n_elems(n_max) - 1) |->
        RSub(GainSum(q, PopOf(i), cme_N_r(model) - 1),
             RMul(PropensitySum(PopOf(i), cme_N_r(model) - 1), q[i]))]

\* C11: for any vector q passed to it, the derivative function returns dp with
\* dp[x] = sum over r of a(x - nu_r, r) * q[x - nu_r] for the sources inside the
\* lattice, minus sum over r of a(x, r) * q[x]; the result depends on q only,
\* not on the previous contents of dp nor on the engine's own p.  Checked
\* for q = p while dp holds the last derivative, and for q = dp while dp
\* holds p.
C11_DerivativeIsMasterEquation ==
    engine = "constructed" =>
        /\ f(p, dp).dp = MasterEquation(p)
        /\ f(dp, p).dp = MasterEquation(dp)

\* a step has left in dp a derivative with gains and losses, on a lattice of
\* two species where some sources x - nu_r are outside the lattice
C11_Witness ==
    /\ engine = "constructed"
    /\ model = "ekinetics"
    /\ cme_nsteps > 0
    /\ n_elems(n_max) > 2
    /\ \E i \in DOMAIN dp : RGt(dp[i], RZero)
    /\ \E i \in DOMAIN dp : RLt(dp[i], RZero)

\* C12: after step(integ, dt), p is exactly the vector the supplied integrator
\* produced from (p_before, dt, derivative_fn), the engine applying no further
\* update to p, and t equals t_before + dt.
C12_StepIsIntegratorResult ==
    [][(cq'.op = "step" /\ cme_nsteps' = cme_nsteps + 1) =>
          /\ p' = integ_step(cq'.integ, p, cq'.dt, dp).p
          /\ cme_t' = RAdd(cme_t, cq'.dt)]_vars

\* the sum of the entries 0..k of the vector q
RECURSIVE RSumTo(_, _)
RSumTo(q, k) == IF k < 0 THEN RZero ELSE RAdd(RSumTo(q, k - 1), q[k])

RSum(q) == RSumTo(q, n_elems(n_max) - 1)

\* all the probability on the lattice state with flat index i
UnitAt(i) == [j \in 0..(n_elems(n_max) - 1) |-> IF j = i THEN ROne ELSE RZero]

\* C13: from the constructed state on, the entries of p add up to 1 after
\* every step, for each of the three models; the derivative adds up to zero
\* over the lattice for every argument, so that no probability leaves
\* through the lattice boundary.  The derivative is checked on p and on the
\* last derivative dp in every state, and on every unit vector, which span
\* all arguments because the derivative is linear; the derivative of a unit
\* vector depends on the constructor's arguments only, so it is computed in
\* the states before the first step.
C13_Conservation ==
    engine = "constructed" =>
        /\ RSum(p) = ROne
        /\ RSum(dp) = RZero
        /\ RSum(f(p, dp).dp) = RZero
        /\ cme_nsteps = 0 =>
              \A i \in 0..(n_elems(n_max) - 1) : RSum(f(UnitAt(i), dp).dp) = RZero

\* two steps made on the two-species lattice, with probability arrived on a
\* boundary state (a state with P = ST) whose losses are applied
\* unconditionally
C13_Witness ==
    /\ engine = "constructed"
    /\ model = "ekinetics"
    /\ cme_nsteps = 2
    /\ \E i \in 0..(n_elems(n_max) - 1) :
          /\ PopOf(i)[eks_P] = ST
          /\ ST > 0
          /\ p[i] # RZero

RECURSIVE Power(_, _)
Power(b, n) == IF n = 0 THEN 1 ELSE Power(b, n - 1) * b

RECURSIVE MomentTo(_, _, _, _)
MomentTo(q, s, n, k) ==
    IF k < 0 THEN RZero
    ELSE RAdd(MomentTo(q, s, n, k - 1), RMul(q[k], RInt(Power(PopOf(k)[s], n))))

Moment(q, s, n) == MomentTo(q, s, n, n_elems(n_max) - 1)

\* the order asked for by the query recorded in cq
QueryOrder == CASE cq.op = "mean" -> 1 [] cq.op = "msq" -> 2 [] OTHER -> cq.n

\* C15: for every species s < N_s and every order n, nth_moment(s, n) is the
\* sum over the lattice states x of p[x] * x_s^n; mean(s) = nth_moment(s, 1)
\* and msq(s) = nth_moment(s, 2); the cached path (n <= 3) and the dedicated
\* sweep over the lattice give the same value.  Stated on the value returned
\* by the last query, which the calls make for every species and every order
\* in every state of the engine.
C15_MomentFormula ==
    (engine = "constructed" /\ cq.ret = "value"
        /\ cq.op \in {"mean", "msq", "nth_moment"}) =>
        /\ cq.val = Moment(p, cq.s_i, QueryOrder)
        /\ cq.val = nth_moment(p, m, calculated_stats, cme_x, cq.s_i, QueryOrder).val
        /\ QueryOrder <= moments_max_order =>
              cq.val = nth_moment_loop(p, 0, [i \in DOMAIN n_max |-> 0], cq.s_i,
                                       QueryOrder, RZero).mom

\* nth_moment was asked for an order above the cached ones, on a vector with
\* probability on a population of 2, where the powers differ from the mean
C15_Witness ==
    /\ engine = "constructed"
    /\ cme_nsteps > 0
    /\ cq.op = "nth_moment"
    /\ cq.ret = "value"
    /\ cq.n > moments_max_order
    /\ cq.val # RZero
    /\ cq.val # Moment(p, cq.s_i, 1)

\* C16: after any interleaving of step / simulate calls and mean / msq / sd /
\* nth_moment queries, a cache marked as calculated holds the moments of the
\* current p for every species and every cached order, a query of a cached
\* order leaves the cache calculated, and the value it returns is the one of
\* the current p: a moment cached before p changed is never served.
C16_CacheCoherence ==
    engine = "constructed" =>
        /\ calculated_stats =>
              \A s \in 0..(cme_N_s(model) - 1) : \A i \in 0..moments_max_order :
                  m[s][i] = Moment(p, s, i)
        /\ (cq.ret = "value" /\ cq.op \in {"mean", "msq", "sd", "nth_moment"}
              /\ (cq.op = "nth_moment" => cq.n <= moments_max_order)) =>
              /\ calculated_stats
              /\ cq.op # "sd" => cq.val = m[cq.s_i][QueryOrder]

\* a cache filled by a query and then invalidated by a step: it still holds a
\* moment of the previous p, which differs from the one of the current p
C16_Witness ==
    /\ engine = "constructed"
    /\ cme_nsteps > 0
    /\ ~calculated_stats
    /\ m # UninitializedMoments(model)
    /\ \E s \in 0..(cme_N_s(model) - 1) : m[s][1] # Moment(p, s, 1)

\* the variance of species s under the probabilities q, and the square of a
\* value returned by sqrt (an exact root, or the root of v[2] / v[3])
Variance(q, s) == RSub(Moment(q, s, 2), RMul(Moment(q, s, 1), Moment(q, s, 1)))

SquareOf(v) == IF Len(v) = 3 THEN Rat(v[2], v[3]) ELSE RMul(v, v)

NonNegative(v) == IF Len(v) = 3 THEN v[2] > 0 /\ v[3] > 0 ELSE RLe(RZero, v)

\* C17: sd(s) of a known species never fails and is never negative: with
\* v = msq(s) - mean(s)^2, sd(s)^2 = v when v > 0 and sd(s) = 0 when v <= 0.
C17_SdClamped ==
    (engine = "constructed" /\ cq.op = "sd" /\ cq.s_i < cme_N_s(model)) =>
        /\ cq.ret = "value"
        /\ NonNegative(cq.val)
        /\ IF RGt(Variance(p, cq.s_i), RZero)
           THEN SquareOf(cq.val) = Variance(p, cq.s_i)
           ELSE cq.val = RZero

\* sd was asked on a vector whose msq - mean^2 is negative, and returned 0
C17_Witness ==
    /\ engine = "constructed"
    /\ cq.op = "sd"
    /\ cq.s_i < cme_N_s(model)
    /\ RLt(Variance(p, cq.s_i), RZero)
    /\ cq.ret = "value"
    /\ cq.val = RZero

\* C18: a freshly constructed engine has p[0] = 1 on the all-zero population
\* and 0 everywhere else; before any step, mean(s) and sd(s) return 0 for
\* every species s.
C18_FreshEngine ==
    (engine = "constructed" /\ cme_nsteps = 0) =>
        /\ p = UnitAt(0)
        /\ \A s \in 0..(cme_N_s(model) - 1) : PopOf(0)[s] = 0
        /\ (cq.op \in {"mean", "sd"} /\ cq.s_i < cme_N_s(model)) =>
              (cq.ret = "value" /\ cq.val = RZero)
        /\ \A s \in 0..(cme_N_s(model) - 1) :
              /\ mean(p, m, calculated_stats, cme_x, s).val = RZero
              /\ sd(p, m, calculated_stats, cme_x, s).val = RZero

\* sd was asked of an engine with more than one lattice state before any step
C18_Witness ==
    /\ engine = "constructed"
    /\ cme_nsteps = 0
    /\ n_elems(n_max) > 1
    /\ cq.op = "sd"
    /\ cq.s_i < cme_N_s(model)
    /\ cq.ret = "value"

\* C19: constructing an engine with a lattice bound n_max[i] <= 0 raises a
\* construction error before p is sized, and the error reaches the caller,
\* also when the bound comes from a model constructor (ET + 1, ST + 1).
C19_ConstructionErrorReachesCaller ==
    (engine # "none" /\ \E i \in DOMAIN n_max : n_max[i] <= 0) =>
        (engine = "thrown" /\ p = <<>>)

\* C20: a query naming an unknown index raises an index error in every state
\* of the engine: mean, msq, sd and nth_moment with a species index
\* s >= N_s, and a(state, r) with a channel index r >= N_r.
C20_UnknownIndexRaises ==
    engine = "constructed" =>
        /\ (cq.op \in {"mean", "msq", "sd", "nth_moment"} /\ cq.s_i >= cme_N_s(model)) =>
              cq.ret = "out_of_range"
        /\ (cq.op = "a" /\ cq.r_i >= cme_N_r(model)) => cq.ret = "out_of_range"

-----------------------------------------------------------------------------
(* Properties of the propensity function, checked under SpecProp *)

\* the region implied by the constants of motion of the single-substrate
\* model: 0 <= C <= ET, 0 <= P, C + P <= ST
InRegion(xx) ==
    /\ 0 <= xx[sss_C]
    /\ xx[sss_C] <= ET
    /\ 0 <= xx[sss_P]
    /\ xx[sss_C] + xx[sss_P] <= ST

\* C21: the propensity function raises a domain error for every population
\* vector outside the region implied by the conserved quantities, negative
\* counts included, and inside the region it returns a non-negative rate
\* without raising.
C21_DomainErrorOutsideRegion ==
    acall.ret # "none" =>
        /\ ~InRegion(acall.x) => acall.ret = "domain_error"
        /\ InRegion(acall.x) => (acall.ret = "value" /\ acall.val >= 0)

-----------------------------------------------------------------------------
(* Properties of the errors of the Gillespie engine, checked under SpecSim *)

\* C22: when the propensity function signals a domain error during a step,
\* the error leaves step, and simulate with it, without being caught, retried
\* or clamped, and x, t (and the trajectory) are exactly as before the failing
\* call.
C22_DomainErrorPropagates ==
    [][/\ domain_error(x) =>
            \A t_final \in Deadlines, w \in Variates1, r2 \in Variates2 :
                LET r == step(x, t, t_final, w, r2)
                IN  r.ret = "domain_error" /\ r.x1 = x /\ r.t1 = t
       /\ (pc = "sim" /\ domain_error(x)) =>
            /\ sim'.status = "thrown"
            /\ sim'.calls = sim.calls + 1
            /\ sim'.accepted = sim.accepted
            /\ pc' = "idle"
            /\ x' = x
            /\ t' = t
            /\ states' = states]_vars

\* a trajectory simulate ended by the exception of its first step: nothing
\* was appended after the initial snapshot
C22_Witness ==
    /\ sim.status = "thrown"
    /\ sim.rec
    /\ sim.b_initial
    /\ sim.calls = 1
    /\ domain_error(x)
    /\ Len(states) = sim.len0 + 1


-----------------------------------------------------------------------------
(* Invariants of the Gillespie engine driven by step, checked under SpecStep *)

\* C24: for the single-substrate engine constructed with ET >= 0, ST >= 0 and
\* non-negative rate constants and started at x = (0, 0), after every
\* sequence of calls of step (resets to x = 0 included) the population
\* numbers satisfy 0 <= C <= ET, 0 <= P and C + P <= ST; the channel
\* selected by an accepted step has a strictly positive propensity at the
\* state it was selected in; and neither the last call nor a call made in the
\* state reached raises a domain error.
C24_PopulationInvariant ==
    (ET >= 0 /\ ST >= 0) =>
        /\ InRegion(x)
        /\ ~domain_error(x)
        /\ last.ret # "domain_error"
        /\ last.ret = "true" =>
               /\ InRegion(last.x0)
               /\ a(last.x0, last.j) > 0
               /\ x = apply_reaction(last.x0, last.j)

\* three accepted steps end on the boundary: all the enzyme was bound, then
\* one complex was converted, so that C = ET - 1 and C + P = ST
C24_Witness ==
    /\ ET = 2
    /\ ST = 2
    /\ nsteps = 3
    /\ last.ret = "true"
    /\ last.j = ssrc_cat
    /\ last.x0[sss_C] = ET
    /\ x[sss_C] = 1
    /\ x[sss_P] = 1


\* C25: a call of step(t_final) with a deadline t_final > 0, made at a time
\* t <= t_final, leaves t <= t_final, whatever the variates and whether the
\* call is the one just made or any call that can be made now; and a
\* reaction whose time t + tau is exactly t_final is accepted: the call
\* returns true and the clock stands on the deadline.
C25_DeadlineInvariant ==
    /\ \A t_final \in Deadlines, w \in Variates1, r2 \in Variates2 :
           (RGt(t_final, RZero) /\ RLe(t, t_final)) =>
               RLe(step(x, t, t_final, w, r2).t1, t_final)
    /\ (last.ret \in {"true", "false"} /\ RGt(last.t_final, RZero)
           /\ RLe(last.t0, last.t_final)) =>
               (t = last.t1 /\ RLe(t, last.t_final))
    /\ (last.ret \in {"true", "false"} /\ last.a_tot # 0
           /\ RGt(last.t_final, RZero)
           /\ RAdd(last.t0, last.tau) = last.t_final) =>
               (last.ret = "true" /\ t = last.t_final)

\* the second reaction of a run lands exactly on the deadline and is accepted
C25_Witness ==
    /\ last.ret = "true"
    /\ RGt(last.t_final, RZero)
    /\ RGt(last.t0, RZero)
    /\ RAdd(last.t0, last.tau) = last.t_final
    /\ t = last.t_final
    /\ nsteps = 2


-----------------------------------------------------------------------------
(* Properties of the reduced one-species engines, checked under SpecQssa *)

Min(i, j) == IF i <= j THEN i ELSE j

\* after nsteps calls of step, made directly or by simulate, P is the number
\* of calls capped by ST: the first ST calls returned true and added exactly
\* 1 to P each, every later call returned false and changed nothing; no
\* call raised; and a simulate(n) with n at least the substrate left at its
\* start ends in P = ST
RunsToCompletion ==
    /\ x[tqs_P] = Min(nsteps, ST)
    /\ last.ret # "none" =>
          /\ last.ret = (IF last.x0[tqs_P] < ST THEN "true" ELSE "false")
          /\ x[tqs_P] = last.x0[tqs_P] + (IF last.ret = "true" THEN 1 ELSE 0)
          /\ last.ret = "false" => t = last.t0
    /\ sim.status # "none" =>
          /\ sim.status = "returned"
          /\ sim.accepted = Min(sim.n, ST - (x[tqs_P] - sim.accepted))
          /\ sim.calls = sim.accepted + (IF sim.false_seen THEN 1 ELSE 0)
          /\ sim.n >= ST - (x[tqs_P] - sim.accepted) => x[tqs_P] = ST

-----------------------------------------------------------------------------
(* Properties of the clock of the CME engine, checked under SpecCme *)

\* C27: as long as no step has been made on a constructed CME engine, its
\* clock t has the value 0, and a simulate call made on the fresh engine
\* starts to integrate at time 0.
C27_ClockZeroAfterConstruction ==
    (engine = "constructed" /\ cme_nsteps = 0) =>
        /\ cme_t = RZero
        /\ cme_pc = "sim" => csim.t0 = RZero


-----------------------------------------------------------------------------
(* Properties of the lattice sweeps of the CME engine, checked under SpecCme *)

\* 0 <= y[i] < nm[i] for every species i
Inside(nm, y) == \A i \in DOMAIN nm : 0 <= y[i] /\ y[i] < nm[i]

\* every access of the derivative computation on the lattice nm with the
\* stoichiometric vectors nus is inside the storage
AccessesInside(nm, nus) ==
    \A e \in f_accesses(nm, nus, 0, [i \in DOMAIN nm |-> 0]) :
        /\ e.pop_i \in 0..(n_elems(nm) - 1)
        /\ Inside(nm, e.x)
        /\ e.read <=> Inside(nm, e.src)
        /\ e.read => get_index(nm, e.src) \in 0..(n_elems(nm) - 1)

\* C28: in the derivative computation of a constructed engine, get_index is
\* applied and p is read only for population vectors y with
\* 0 <= y[i] < n_max[i]; a source x - nu[r] outside the lattice in any
\* dimension is skipped; every index used for p and dp is in
\* 0..n_elems() - 1, and the propensity a(x, r) is asked inside the lattice.
C28_DerivativeMemorySafety ==
    engine = "constructed" => AccessesInside(n_max, cme_nu(model))

\* a step was made on the two-species lattice {2, 3}: sources below 0 and
\* sources at n_max were skipped, others were read
C28_Witness ==
    /\ engine = "constructed"
    /\ cme_nsteps > 0
    /\ Dim(n_max) = 2
    /\ LET acc == f_accesses(n_max, cme_nu(model), 0, [i \in DOMAIN n_max |-> 0])
       IN  /\ \E e \in acc : e.read /\ e.pop_i # get_index(n_max, e.src)
           /\ \E e \in acc : ~e.read /\ \E i \in DOMAIN n_max : e.src[i] < 0
           /\ \E e \in acc : ~e.read /\ \E i \in DOMAIN n_max : e.src[i] >= n_max[i]


-----------------------------------------------------------------------------
(* Properties of the simulate loop of the CME engine, checked under SpecClock *)

\* C29: cme::simulate terminates for every dt > 0 and every finite t_final:
\* every iteration of its loop moves the clock strictly forward by the step,
\* so that after finitely many iterations t exceeds t_final; and with
\* dt <= 0 a loop entered with t <= t_final is never left.
C29_SimulateTerminates ==
    [][/\ (cme_pc = "sim" /\ RGt(csim.dt, RZero)) =>
             /\ RLt(cme_t, cme_t')
             /\ cme_t' = RAdd(cme_t, csim.dt)
       /\ (cme_pc = "sim" /\ RLe(csim.dt, RZero)) =>
             /\ cme_pc' = "sim"
             /\ RLe(cme_t', cme_t)
             /\ cme_loop_cond(cme_t', csim.t_final)]_vars


\* the sweep over the lattice nm visits the states in the order of the indexer
SweepInIndexOrder(nm) ==
    \A pop_i \in 0..(n_elems(nm) - 1) :
        /\ sweep_x(nm, pop_i) = get_pop(nm, pop_i)
        /\ get_index(nm, sweep_x(nm, pop_i)) = pop_i

\* C30: in the three sweeps over the lattice of a constructed engine (the
\* derivative computation, calc_moments and the high orders of nth_moment)
\* the scratch vector x at the start of iteration pop_i is get_pop(pop_i),
\* for every pop_i in 0..n_elems()-1; the vector used in every iteration of
\* the derivative is that one, and the scratch vector a completed sweep
\* leaves behind is the one carried out of the last iteration.
C30_SweepIsIndexOrder ==
    engine = "constructed" =>
        /\ SweepInIndexOrder(n_max)
        /\ \A e \in f_accesses(n_max, cme_nu(model), 0, [i \in DOMAIN n_max |-> 0]) :
               e.x = get_pop(n_max, e.pop_i)
        /\ cme_x \in {[i \in DOMAIN n_max |-> 0], sweep_x(n_max, n_elems(n_max))}

\* a sweep was completed on the lattice {2, 3}: the last species wrapped
\* around with a carry into the first, which ends at n_max[0]
C30_Witness ==
    /\ engine = "constructed"
    /\ n_max = [i \in 0..1 |-> IF i = 0 THEN 2 ELSE 3]
    /\ cme_x = [i \in 0..1 |-> IF i = 0 THEN 2 ELSE 0]
    /\ sweep_x(n_max, 3) = [i \in 0..1 |-> IF i = 0 THEN 1 ELSE 0]
    /\ cq.op = "nth_moment"
    /\ cq.n > moments_max_order

=============================================================================
